---------------------------- MODULE Spec2Model ----------------------------
(***************************************************************************)
(* Real-time K-line aggregation (src/src/storage/kline_period.py and       *)
(* src/src/storage/kline_builder.py), the tick buffer, the failure handler *)
(* and the K-line storage engine (tick_buffer.py, failure_handler.py,      *)
(* kline_storage.py) and the application's shutdown (src/src/apps/md_app.py).*)
(*                                                                         *)
(* Prices are integers (the code uses floats only for comparison, max and  *)
(* min).  A datetime is a record [year, month, day, hour, minute, second,  *)
(* msec]; TradingDay is the integer YYYYMMDD (0 for the empty string) and  *)
(* UpdateTime the integer HHMMSS (-1 for the empty string).                *)
(***************************************************************************)
EXTENDS Integers, Sequences, FiniteSets, TLC

VARIABLES
    enabled_periods,   \* KLineBuilder.enabled_periods (list of periods)
    current_bars,      \* KLineBuilder.current_bars: instrument -> period -> bar
    total_ticks,       \* KLineBuilder._total_ticks
    total_bars,        \* KLineBuilder._total_bars
    store_calls,       \* calls of kline_storage.store_kline: [bar, raised]
    inst_order,        \* insertion order of the keys of current_bars
    calls,             \* number of on_tick and of close() calls made
    hist,              \* per instrument: the ticks on_tick processed so far
    last,              \* the operation that produced this state
    bar,               \* a KLineBar under update()            (SpecBar)
    fed,               \* the ticks folded into bar, in order  (SpecBar)
    probe,             \* inputs and results of the time helpers (SpecTime)
    tick_buffer,       \* a TickBuffer: _buffer, counters         (SpecBuffer)
    failure_handler,   \* a FailureHandler, its directory, client (SpecRetry)
    tasks,             \* on_tick coroutines suspended at an await (SpecAsync)
    kline_storage      \* a KLineStorage engine and its writer task (SpecStorage)

vars == <<enabled_periods, current_bars, total_ticks, total_bars,
          store_calls, inst_order, calls, hist, last, bar, fed, probe,
          tick_buffer, failure_handler, tasks, kline_storage>>

builderVars == <<enabled_periods, current_bars, total_ticks, total_bars,
                 store_calls, inst_order, calls, hist, last>>

auxVars == <<tick_buffer, failure_handler, tasks, kline_storage>>

(***************************************************************************)
(* Bounds of the model.                                                    *)
(***************************************************************************)
MaxCalls == 4      \* on_tick and close() calls in one behaviour of Spec
MaxFold  == 3      \* update() calls on one bar in SpecBar
MaxFailCalls == 3  \* on_tick and close() calls in one behaviour of SpecFail
MaxFeedCalls == 3  \* on_tick calls in one behaviour of SpecFeed
MaxKeys == 2       \* period keys given to one constructor in SpecPeriod
MaxBufSize == 3    \* largest max_size of a TickBuffer in SpecBuffer
MaxBufOps == 5     \* add, get_batch and get_all calls in one behaviour of SpecBuffer
MaxRetryOps == 4   \* save_failed_batch and retry_failed_batches calls in SpecRetry
MaxAsyncTicks == 3 \* on_tick coroutines started in one behaviour of SpecAsync
MaxStored == 3     \* store_kline calls in one behaviour of SpecStorage

(***************************************************************************)
(* KLinePeriod                                                             *)
(***************************************************************************)
AllPeriods == <<"1m", "3m", "5m", "10m", "15m", "30m", "60m", "1d">>

DAY_1 == "1d"

PeriodSet == {AllPeriods[k] : k \in DOMAIN AllPeriods}

MinutePeriods == PeriodSet \ {DAY_1}

minutes(period) ==
    CASE period = "1m"  -> 1
      [] period = "3m"  -> 3
      [] period = "5m"  -> 5
      [] period = "10m" -> 10
      [] period = "15m" -> 15
      [] period = "30m" -> 30
      [] period = "60m" -> 60
      [] period = "1d"  -> 1440
      [] OTHER          -> 1

\* a bug that strips and lower-cases the string before matching
from_string_casefold(period_str) ==
    LET folded == CASE period_str = "5M" -> "5m"
                    [] period_str = "1D" -> "1d"
                    [] period_str = " 5m" -> "5m"
                    [] OTHER -> period_str
    IN  IF \E k \in DOMAIN AllPeriods : AllPeriods[k] = folded
        THEN AllPeriods[CHOOSE k \in DOMAIN AllPeriods : AllPeriods[k] = folded]
        ELSE "ValueError"

\* from_string: the first member whose value equals the string, else ValueError
from_string(period_str) ==
    IF \E k \in DOMAIN AllPeriods : AllPeriods[k] = period_str
    THEN AllPeriods[CHOOSE k \in DOMAIN AllPeriods : AllPeriods[k] = period_str]
    ELSE "ValueError"

get_all_periods == AllPeriods

(***************************************************************************)
(* datetime                                                                *)
(***************************************************************************)
NoneTime == [year |-> 0, month |-> 0, day |-> 0, hour |-> 0, minute |-> 0,
             second |-> 0, msec |-> 0]

IsLeap(y) == (y % 4 = 0 /\ y % 100 # 0) \/ y % 400 = 0

DaysInMonth(y, m) ==
    IF m = 2 THEN (IF IsLeap(y) THEN 29 ELSE 28)
    ELSE IF m \in {4, 6, 9, 11} THEN 30 ELSE 31

DaysBeforeMonth(y, m) ==
    LET cum == <<0, 31, 59, 90, 120, 151, 181, 212, 243, 273, 304, 334>>
    IN  cum[m] + (IF m > 2 /\ IsLeap(y) THEN 1 ELSE 0)

\* days from 2025-01-01 (the difference of two datetime.toordinal() values)
Ordinal(dt) ==
    LET y == dt.year - 1
        y0 == 2024
        before(n) == n * 365 + (n \div 4) - (n \div 100) + (n \div 400)
    IN  (before(y) - before(y0)) + DaysBeforeMonth(dt.year, dt.month) + (dt.day - 1)

\* a - b as a normalized timedelta: 0 <= seconds < 86400, 0 <= msec < 1000
timedelta(a, b) ==
    LET d0 == Ordinal(a) - Ordinal(b)
        s0 == (a.hour * 3600 + a.minute * 60 + a.second)
              - (b.hour * 3600 + b.minute * 60 + b.second)
        m0 == a.msec - b.msec
        s1 == IF m0 < 0 THEN s0 - 1 ELSE s0
        m1 == IF m0 < 0 THEN m0 + 1000 ELSE m0
        d1 == IF s1 < 0 THEN d0 - 1 ELSE d0
        s2 == IF s1 < 0 THEN s1 + 86400 ELSE s1
    IN  [days |-> d1, seconds |-> s2, msec |-> m1]

\* timedelta.total_seconds(), in milliseconds
total_msec(td) == (td.days * 86400 + td.seconds) * 1000 + td.msec

(***************************************************************************)
(* KLineBar                                                                *)
(***************************************************************************)
Get(tick_data, key, default) ==
    IF key \in DOMAIN tick_data THEN tick_data[key] ELSE default

Max(a, b) == IF a >= b THEN a ELSE b
Min(a, b) == IF a <= b THEN a ELSE b

KLineBar(instrument_id, period) ==
    [instrument_id |-> instrument_id, period |-> period,
     start_time |-> NoneTime, end_time |-> NoneTime, trading_day |-> 0,
     open |-> 0, high |-> 0, low |-> 0, close |-> 0,
     volume |-> 0, turnover |-> 0, open_interest |-> 0,
     tick_count |-> 0, is_finished |-> FALSE]

\* lines 132-145: open/high/low/close
update_price(b, price) ==
    LET first == (b.open = 0)
    IN  [b EXCEPT
            !.open = IF first THEN price ELSE b.open,
            !.high = IF first THEN price ELSE Max(b.high, price),
            !.low  = IF first THEN price
                     ELSE IF b.low > 0 THEN Min(b.low, price) ELSE price,
            !.close = price]

\* a bug that sums the cumulative fields instead of overwriting them
update_cumulative_sum(b, tick_data) ==
    [b EXCEPT
        !.volume = b.volume + Get(tick_data, "Volume", 0),
        !.turnover = b.turnover + Get(tick_data, "Turnover", 0),
        !.open_interest = b.open_interest + Get(tick_data, "OpenInterest", 0)]

\* lines 147-150: volume, turnover, open_interest
update_cumulative(b, tick_data) ==
    [b EXCEPT
        !.volume = Get(tick_data, "Volume", 0),
        !.turnover = Get(tick_data, "Turnover", 0),
        !.open_interest = Get(tick_data, "OpenInterest", 0)]

\* a bug that relabels the bar with the TradingDay of every tick
update_relabel(b, tick_data) ==
    LET price == Get(tick_data, "LastPrice", 0)
        b1 == update_price(b, price)
        b2 == update_cumulative(b1, tick_data)
    IN  [b2 EXCEPT
            !.trading_day = Get(tick_data, "TradingDay", 0),
            !.tick_count = b.tick_count + 1]

update(b, tick_data) ==
    LET price == Get(tick_data, "LastPrice", 0)
        b1 == update_price(b, price)
        b2 == update_cumulative(b1, tick_data)
    IN  [b2 EXCEPT
            !.trading_day = IF b.trading_day = 0
                            THEN Get(tick_data, "TradingDay", 0)
                            ELSE b.trading_day,
            !.tick_count = b.tick_count + 1]

(***************************************************************************)
(* KLineBuilder: time helpers                                              *)
(***************************************************************************)
\* a bug that leaves the sub-second part of the timestamp in place
align_time_keep_msec(dt, period) ==
    IF period = DAY_1
    THEN [dt EXCEPT !.hour = 9, !.minute = 0, !.second = 0]
    ELSE LET aligned_minute == (dt.minute \div minutes(period)) * minutes(period)
         IN  [dt EXCEPT !.minute = aligned_minute, !.second = 0]

align_time(dt, period) ==
    IF period = DAY_1
    THEN [dt EXCEPT !.hour = 9, !.minute = 0, !.second = 0, !.msec = 0]
    ELSE LET aligned_minute == (dt.minute \div minutes(period)) * minutes(period)
         IN  [dt EXCEPT !.minute = aligned_minute, !.second = 0, !.msec = 0]

\* a bug that creates the bar without its instrument
create_new_bar_no_owner(instrument_id, period, current_time) ==
    [KLineBar("", period) EXCEPT !.start_time = align_time(current_time, period)]

\* a bug that starts the bar at the tick's own timestamp
create_new_bar_unaligned(instrument_id, period, current_time) ==
    [KLineBar(instrument_id, period) EXCEPT !.start_time = current_time]

create_new_bar(instrument_id, period, current_time) ==
    [KLineBar(instrument_id, period) EXCEPT
        !.start_time = align_time(current_time, period)]

\* a bug that closes the daily bar on any change of day, whatever the hour
should_finish_day_any_hour(b, current_time) ==
    b.start_time.day # current_time.day

\* lines 167-176: the daily bar
should_finish_day(b, current_time) ==
    IF current_time.hour >= 15 /\ b.start_time.day # current_time.day
    THEN TRUE
    ELSE IF current_time.hour >= 3 /\ b.start_time.day # current_time.day
    THEN TRUE
    ELSE FALSE

\* a bug that measures the distance between the tick and the start
should_finish_minute_abs(b, current_time) ==
    LET elapsed == total_msec(timedelta(current_time, b.start_time))
    IN  (IF elapsed < 0 THEN -elapsed ELSE elapsed) >= minutes(b.period) * 60000

\* a bug that closes a bar as soon as no time is left before its start
should_finish_minute_nonneg(b, current_time) ==
    total_msec(timedelta(current_time, b.start_time)) >= 0

\* a bug that closes only strictly after the nominal end
should_finish_minute_strict(b, current_time) ==
    total_msec(timedelta(current_time, b.start_time)) > minutes(b.period) * 60000

\* a bug that reads timedelta.seconds instead of total_seconds()
should_finish_minute_seconds(b, current_time) ==
    LET td == timedelta(current_time, b.start_time)
    IN  td.seconds * 1000 + td.msec >= minutes(b.period) * 60000

\* lines 178-183: elapsed = total_seconds() / 60 >= minutes
should_finish_minute(b, current_time) ==
    total_msec(timedelta(current_time, b.start_time)) >= minutes(b.period) * 60000

should_finish_bar(b, current_time) ==
    IF b.start_time = NoneTime THEN FALSE
    ELSE IF b.period = DAY_1
    THEN should_finish_day(b, current_time)
    ELSE should_finish_minute(b, current_time)

\* the fields strptime("%Y%m%d %H:%M:%S") accepts as a datetime
valid_datetime(dt) ==
    /\ dt.year >= 1
    /\ dt.month \in 1..12
    /\ dt.day >= 1 /\ dt.day <= DaysInMonth(dt.year, dt.month)
    /\ dt.hour \in 0..23
    /\ dt.minute \in 0..59
    /\ dt.second \in 0..59

\* a bug that follows the docstring: None when the time cannot be parsed
parse_tick_time_none(tick_data, now) ==
    LET trading_day == Get(tick_data, "TradingDay", 0)
        update_time == Get(tick_data, "UpdateTime", -1)
        update_millisec == Get(tick_data, "UpdateMillisec", 0)
        dt == [year |-> trading_day \div 10000,
               month |-> (trading_day \div 100) % 100,
               day |-> trading_day % 100,
               hour |-> update_time \div 10000,
               minute |-> (update_time \div 100) % 100,
               second |-> update_time % 100,
               msec |-> update_millisec]
    IN  IF trading_day # 0 /\ update_time # -1
        THEN IF valid_datetime(dt) THEN dt ELSE NoneTime
        ELSE NoneTime

\* strptime("%Y%m%d %H:%M:%S") + timedelta(milliseconds); datetime.now() when
\* a field is empty or strptime raises
parse_tick_time(tick_data, now) ==
    LET trading_day == Get(tick_data, "TradingDay", 0)
        update_time == Get(tick_data, "UpdateTime", -1)
        update_millisec == Get(tick_data, "UpdateMillisec", 0)
        dt == [year |-> trading_day \div 10000,
               month |-> (trading_day \div 100) % 100,
               day |-> trading_day % 100,
               hour |-> update_time \div 10000,
               minute |-> (update_time \div 100) % 100,
               second |-> update_time % 100,
               msec |-> update_millisec]
    IN  IF trading_day # 0 /\ update_time # -1
        THEN IF valid_datetime(dt) THEN dt ELSE now
        ELSE now

(***************************************************************************)
(* KLineBuilder: on_tick and close                                         *)
(*                                                                         *)
(* raiseAt is the environment's choice of the store_kline call (numbered   *)
(* within one on_tick or close call, 0 for none) that raises.              *)
(***************************************************************************)
EmptyMap == [x \in {} |-> 0]

\* a ValueError of from_string leaves the constructor (raised), otherwise
\* self.enabled_periods is assigned
KLineBuilder_init(periods) ==
    IF Len(periods) > 0
    THEN IF \E k \in DOMAIN periods : from_string(periods[k]) = "ValueError"
         THEN [raised |-> TRUE, enabled_periods |-> <<>>]
         ELSE [raised |-> FALSE,
               enabled_periods |-> [k \in DOMAIN periods |->
                                      from_string(periods[k])]]
    ELSE [raised |-> FALSE, enabled_periods |-> get_all_periods]

\* a bug that passes the bar to the sink before marking it finished
update_kline_mark_late(st, instrument_id, period, tick_data, current_time, raiseAt) ==
    LET bars0 == IF period \notin DOMAIN st.bars
                 THEN (period :> create_new_bar(instrument_id, period, current_time))
                      @@ st.bars
                 ELSE st.bars
        current_bar == bars0[period]
    IN  IF should_finish_bar(current_bar, current_time)
        THEN LET n == st.nstore + 1
             IN  IF n = raiseAt
                 THEN [st EXCEPT
                         !.calls = Append(@, [bar |-> current_bar, raised |-> TRUE]),
                         !.nstore = n,
                         !.raised = TRUE]
                 ELSE [st EXCEPT
                         !.bars = [bars0 EXCEPT ![period] =
                                     update(create_new_bar(instrument_id, period,
                                                           current_time), tick_data)],
                         !.calls = Append(@, [bar |-> current_bar, raised |-> FALSE]),
                         !.nstore = n,
                         !.total_bars = @ + 1]
        ELSE [st EXCEPT !.bars = [bars0 EXCEPT ![period] =
                                    update(current_bar, tick_data)]]

\* a bug that folds the tick into the bar before the bar is stored
update_kline_fold_first(st, instrument_id, period, tick_data, current_time, raiseAt) ==
    LET bars0 == IF period \notin DOMAIN st.bars
                 THEN (period :> create_new_bar(instrument_id, period, current_time))
                      @@ st.bars
                 ELSE st.bars
        current_bar == bars0[period]
    IN  IF should_finish_bar(current_bar, current_time)
        THEN LET finished == [update(current_bar, tick_data) EXCEPT
                                 !.is_finished = TRUE, !.end_time = current_time]
                 n == st.nstore + 1
             IN  IF n = raiseAt
                 THEN [st EXCEPT
                         !.bars = [bars0 EXCEPT ![period] = finished],
                         !.calls = Append(@, [bar |-> finished, raised |-> TRUE]),
                         !.nstore = n,
                         !.raised = TRUE]
                 ELSE [st EXCEPT
                         !.bars = [bars0 EXCEPT ![period] =
                                     update(create_new_bar(instrument_id, period,
                                                           current_time), tick_data)],
                         !.calls = Append(@, [bar |-> finished, raised |-> FALSE]),
                         !.nstore = n,
                         !.total_bars = @ + 1]
        ELSE [st EXCEPT !.bars = [bars0 EXCEPT ![period] =
                                    update(current_bar, tick_data)]]

update_kline(st, instrument_id, period, tick_data, current_time, raiseAt) ==
    LET bars0 == IF period \notin DOMAIN st.bars
                 THEN (period :> create_new_bar(instrument_id, period, current_time))
                      @@ st.bars
                 ELSE st.bars
        current_bar == bars0[period]
    IN  IF should_finish_bar(current_bar, current_time)
        THEN LET finished == [current_bar EXCEPT !.is_finished = TRUE,
                                                 !.end_time = current_time]
                 n == st.nstore + 1
             IN  IF n = raiseAt
                 THEN [st EXCEPT
                         !.bars = [bars0 EXCEPT ![period] = finished],
                         !.calls = Append(@, [bar |-> finished, raised |-> TRUE]),
                         !.nstore = n,
                         !.raised = TRUE]
                 ELSE [st EXCEPT
                         !.bars = [bars0 EXCEPT ![period] =
                                     update(create_new_bar(instrument_id, period,
                                                           current_time), tick_data)],
                         !.calls = Append(@, [bar |-> finished, raised |-> FALSE]),
                         !.nstore = n,
                         !.total_bars = @ + 1]
        ELSE [st EXCEPT !.bars = [bars0 EXCEPT ![period] =
                                    update(current_bar, tick_data)]]

\* for period in self.enabled_periods: await self._update_kline(...)
RECURSIVE update_periods(_, _, _, _, _, _)
update_periods(st, k, instrument_id, tick_data, current_time, raiseAt) ==
    IF k > Len(enabled_periods) \/ st.raised
    THEN st
    ELSE update_periods(
            update_kline(st, instrument_id, enabled_periods[k], tick_data,
                         current_time, raiseAt),
            k + 1, instrument_id, tick_data, current_time, raiseAt)

\* the window of a minute period that contains t (used by the history only)
Window(t, period) ==
    [t EXCEPT !.minute = t.minute - (t.minute % minutes(period)),
              !.second = 0, !.msec = 0]

\* a - b >= 0 by comparing the fields in order
NotBefore(a, b) ==
    LET ka == <<a.year, a.month, a.day, a.hour, a.minute, a.second, a.msec>>
        kb == <<b.year, b.month, b.day, b.hour, b.minute, b.second, b.msec>>
    IN  \/ ka = kb
        \/ \E k \in 1..7 : ka[k] > kb[k] /\ \A j \in 1..(k - 1) : ka[j] = kb[j]

NewHist == [n |-> 0, last_time |-> NoneTime, monotone |-> TRUE,
            crossings |-> [p \in MinutePeriods |-> 0]]

HistAfter(h, t) ==
    [n |-> h.n + 1,
     last_time |-> t,
     monotone |-> h.monotone /\ (h.n = 0 \/ NotBefore(t, h.last_time)),
     crossings |-> [p \in MinutePeriods |->
                      IF h.n > 0 /\ Window(t, p) # Window(h.last_time, p)
                      THEN h.crossings[p] + 1 ELSE h.crossings[p]]]

(***************************************************************************)
(* The sink.  builder.kline_storage is whatever object was injected: a     *)
(* recorder whose store_kline returns or raises (store_calls), or a        *)
(* KLineStorage engine (kline_storage, attached).  KLineStorage.store_kline *)
(* puts on an unbounded asyncio.Queue, so it neither suspends nor raises.  *)
(* A queued item is [id, bar, caller]: id is the position of the call      *)
(* among all store_kline calls (the identity of the hand-over) and caller  *)
(* the builder operation that made it.                                     *)
(***************************************************************************)
IdleStorage == [attached |-> FALSE]

\* a bug that accepts bars after the engine stopped
store_kline_always(ks, kline_bar, caller) ==
    LET item == [id |-> Len(ks.accepted) + Len(ks.discarded) + 1,
                 bar |-> kline_bar, caller |-> caller]
    IN  [ks EXCEPT !.write_queue = Append(@, item),
                   !.accepted = Append(@, item)]

\* kline_storage.py lines 65-77
store_kline(ks, kline_bar, caller) ==
    LET item == [id |-> Len(ks.accepted) + Len(ks.discarded) + 1,
                 bar |-> kline_bar, caller |-> caller]
    IN  IF ~ks.running
        THEN [ks EXCEPT !.discarded = Append(@, item)]
        ELSE [ks EXCEPT !.write_queue = Append(@, item),
                        !.accepted = Append(@, item)]

\* the store_kline calls cs[k..] of one builder operation reach the engine
RECURSIVE store_all(_, _, _, _)
store_all(ks, cs, k, caller) ==
    IF ~ks.attached \/ k > Len(cs) THEN ks
    ELSE store_all(IF cs[k].raised THEN ks
                   ELSE store_kline(ks, cs[k].bar, caller),
                   cs, k + 1, caller)

\* a bug that tests only the presence of the key
has_instrument_key(tick_data) == "InstrumentID" \in DOMAIN tick_data

\* lines 57-58: instrument_id = tick_data.get("InstrumentID"); not instrument_id
has_instrument(tick_data) == Get(tick_data, "InstrumentID", "") # ""

on_tick(tick_data, now, raiseAt) ==
    LET instrument_id == Get(tick_data, "InstrumentID", "")
        current_time == parse_tick_time(tick_data, now)
    IN
    /\ calls.on_tick + calls.close < MaxCalls
    /\ calls' = [calls EXCEPT !.on_tick = @ + 1]
    /\ UNCHANGED <<enabled_periods, bar, fed, probe, tick_buffer,
                   failure_handler, tasks>>
    /\ IF ~has_instrument(tick_data) \/ current_time = NoneTime
       THEN /\ UNCHANGED <<current_bars, total_ticks, total_bars, store_calls,
                           inst_order, hist>>
            /\ last' = [op |-> "on_tick", tick |-> tick_data, time |-> NoneTime,
                        nstore |-> 0, result |-> "dropped"]
       ELSE LET known == instrument_id \in DOMAIN current_bars
                st0 == [bars |-> IF known THEN current_bars[instrument_id]
                                 ELSE EmptyMap,
                        calls |-> store_calls, nstore |-> 0,
                        total_bars |-> total_bars, raised |-> FALSE]
                st1 == update_periods(st0, 1, instrument_id, tick_data,
                                      current_time, raiseAt)
            IN  /\ current_bars' = (instrument_id :> st1.bars) @@ current_bars
                /\ inst_order' = IF known THEN inst_order
                                 ELSE Append(inst_order, instrument_id)
                /\ store_calls' = st1.calls
                /\ total_bars' = st1.total_bars
                /\ total_ticks' = IF st1.raised THEN total_ticks
                                  ELSE total_ticks + 1
                /\ hist' = (instrument_id :>
                              HistAfter(IF instrument_id \in DOMAIN hist
                                        THEN hist[instrument_id] ELSE NewHist,
                                        current_time)) @@ hist
                /\ last' = [op |-> "on_tick", tick |-> tick_data,
                            time |-> current_time, nstore |-> st1.nstore,
                            result |-> IF st1.raised THEN "raised" ELSE "ok"]
    /\ kline_storage' = store_all(kline_storage, store_calls',
                                  Len(store_calls) + 1, "on_tick")

\* the (instrument, period) pairs in the iteration order of close()
RECURSIVE PeriodsOf(_, _)
PeriodsOf(i, k) ==
    IF k > Len(enabled_periods) THEN <<>>
    ELSE (IF /\ enabled_periods[k] \in DOMAIN current_bars[i]
             /\ \A j \in 1..(k - 1) : enabled_periods[j] # enabled_periods[k]
          THEN <<[instrument_id |-> i, period |-> enabled_periods[k]]>>
          ELSE <<>>)
         \o PeriodsOf(i, k + 1)

RECURSIVE ItemsFrom(_)
ItemsFrom(k) ==
    IF k > Len(inst_order) THEN <<>>
    ELSE PeriodsOf(inst_order[k], 1) \o ItemsFrom(k + 1)

\* a bug that never marks the flushed bar finished
close_bar_unfinished(st, i, p, now, raiseAt) ==
    LET b == st.bars[i][p]
    IN  IF b.tick_count > 0
        THEN LET finished == [b EXCEPT !.end_time = now]
                 n == st.nstore + 1
             IN  [st EXCEPT !.bars[i][p] = finished,
                            !.calls = Append(@, [bar |-> finished,
                                                 raised |-> (n = raiseAt)]),
                            !.nstore = n,
                            !.raised = (n = raiseAt)]
        ELSE st

\* lines 297-301: the body of the loops of close()
close_bar(st, i, p, now, raiseAt) ==
    LET b == st.bars[i][p]
    IN  IF b.tick_count > 0
        THEN LET finished == [b EXCEPT !.is_finished = TRUE, !.end_time = now]
                 n == st.nstore + 1
             IN  [st EXCEPT !.bars[i][p] = finished,
                            !.calls = Append(@, [bar |-> finished,
                                                 raised |-> (n = raiseAt)]),
                            !.nstore = n,
                            !.raised = (n = raiseAt)]
        ELSE st

RECURSIVE close_items(_, _, _, _, _)
close_items(st, items, k, now, raiseAt) ==
    IF k > Len(items) \/ st.raised THEN st
    ELSE close_items(close_bar(st, items[k].instrument_id, items[k].period,
                               now, raiseAt),
                     items, k + 1, now, raiseAt)

close(now, raiseAt) ==
    LET st0 == [bars |-> current_bars, calls |-> store_calls, nstore |-> 0,
                raised |-> FALSE]
        st1 == close_items(st0, ItemsFrom(1), 1, now, raiseAt)
    IN  /\ calls.on_tick + calls.close < MaxCalls
        /\ calls' = [calls EXCEPT !.close = @ + 1]
        /\ current_bars' = st1.bars
        /\ store_calls' = st1.calls
        /\ last' = [op |-> "close", tick |-> [InstrumentID |-> ""],
                    time |-> now, nstore |-> st1.nstore,
                    result |-> IF st1.raised THEN "raised" ELSE "ok"]
        /\ kline_storage' = store_all(kline_storage, store_calls',
                                      Len(store_calls) + 1, "close")
        /\ UNCHANGED <<enabled_periods, total_ticks, total_bars, inst_order,
                       hist, bar, fed, probe, tick_buffer, failure_handler,
                       tasks>>

(***************************************************************************)
(* Spec: one builder with periods 1m and 5m, fed sequentially, with a sink *)
(* whose store_kline returns normally (KLineStorage.store_kline and        *)
(* CSVKLineStorage.store_kline never raise).                               *)
(***************************************************************************)
At(h, m, s, ms) ==
    [TradingDay |-> 20251223, UpdateTime |-> h * 10000 + m * 100 + s,
     UpdateMillisec |-> ms]

FeedTimes ==
    {At(9, 30, 0, 0), At(9, 30, 30, 500), At(9, 30, 59, 999), At(9, 31, 0, 0),
     At(9, 35, 0, 0), At(9, 42, 10, 0)}

FeedPayloads ==
    {[LastPrice |-> 3500, Volume |-> 100, Turnover |-> 350000,
      OpenInterest |-> 1000],
     [LastPrice |-> 3510, Volume |-> 150, Turnover |-> 526500,
      OpenInterest |-> 1050],
     [LastPrice |-> 0, Volume |-> 200, Turnover |-> 698000,
      OpenInterest |-> 1100]}

FeedTicks ==
    {[InstrumentID |-> "rb2505"] @@ t @@ q : t \in FeedTimes, q \in FeedPayloads}

\* datetime.now() of the shutdown
NowTimes == {[year |-> 2025, month |-> 12, day |-> 23, hour |-> 15,
              minute |-> 0, second |-> 1, msec |-> 0]}

IdleBar == KLineBar("", "1m")

IdleProbe == [stage |-> "idle"]

IdleBuffer == [op |-> "idle"]

IdleHandler == [op |-> "idle"]

NoTasks == [x \in {} |-> 0]

\* the components a specification does not exercise
InitAux ==
    /\ tick_buffer = IdleBuffer
    /\ failure_handler = IdleHandler
    /\ tasks = NoTasks
    /\ kline_storage = IdleStorage

InitBuilder(periods) ==
    /\ enabled_periods = KLineBuilder_init(periods).enabled_periods
    /\ current_bars = EmptyMap
    /\ total_ticks = 0
    /\ total_bars = 0
    /\ store_calls = <<>>
    /\ inst_order = <<>>
    /\ calls = [on_tick |-> 0, close |-> 0]
    /\ hist = EmptyMap
    /\ last = [op |-> "init", tick |-> [InstrumentID |-> ""], time |-> NoneTime,
               nstore |-> 0, result |-> "ok"]

Init ==
    /\ InitBuilder(<<"1m", "5m">>)
    /\ bar = IdleBar
    /\ fed = <<>>
    /\ InitAux
    /\ probe = IdleProbe

Tick == \E tick_data \in FeedTicks, now \in NowTimes : on_tick(tick_data, now, 0)

Close == \E now \in NowTimes : close(now, 0)

Next == Tick \/ Close

Spec == Init /\ [][Next]_vars

(***************************************************************************)
(* SpecBar: a fresh KLineBar folded with up to MaxFold ticks by update().  *)
(***************************************************************************)
BarPrices == {-2, 0, 3, 5, 7}

BarPayloads ==
    {[Volume |-> 100, Turnover |-> 350, OpenInterest |-> 1000,
      TradingDay |-> 20251223],
     [Volume |-> 150, Turnover |-> 526, OpenInterest |-> 1050,
      TradingDay |-> 20251224],
     [InstrumentID |-> "rb2505"]}

BarTicks ==
    {[LastPrice |-> x] @@ q : x \in BarPrices, q \in BarPayloads}
    \cup {[Volume |-> 200]}

InitBar ==
    /\ InitBuilder(<<"1m">>)
    /\ bar = KLineBar("rb2505", "1m")
    /\ fed = <<>>
    /\ InitAux
    /\ probe = IdleProbe

BarUpdate ==
    /\ Len(fed) < MaxFold
    /\ \E tick_data \in BarTicks :
          /\ bar' = update(bar, tick_data)
          /\ fed' = Append(fed, tick_data)
    /\ UNCHANGED <<builderVars, probe, auxVars>>

NextBar == BarUpdate

SpecBar == InitBar /\ [][NextBar]_vars

(***************************************************************************)
(* SpecTime: _create_new_bar / _align_time applied to a timestamp, then    *)
(* _should_finish_bar applied to the created bar and a later timestamp.    *)
(***************************************************************************)
NextDay(dt) ==
    IF dt.day < DaysInMonth(dt.year, dt.month) THEN [dt EXCEPT !.day = @ + 1]
    ELSE IF dt.month < 12 THEN [dt EXCEPT !.day = 1, !.month = @ + 1]
    ELSE [dt EXCEPT !.day = 1, !.month = 1, !.year = @ + 1]

PrevDay(dt) ==
    IF dt.day > 1 THEN [dt EXCEPT !.day = @ - 1]
    ELSE IF dt.month > 1
    THEN [dt EXCEPT !.day = DaysInMonth(dt.year, dt.month - 1), !.month = @ - 1]
    ELSE [dt EXCEPT !.day = 31, !.month = 12, !.year = @ - 1]

RECURSIVE AddDays(_, _)
AddDays(dt, n) ==
    IF n = 0 THEN dt
    ELSE IF n > 0 THEN AddDays(NextDay(dt), n - 1)
    ELSE AddDays(PrevDay(dt), n + 1)

\* the timestamp ms milliseconds after dt (before it when ms < 0)
Plus(dt, ms) ==
    LET tod == ((dt.hour * 60 + dt.minute) * 60 + dt.second) * 1000 + dt.msec
        raw == tod + ms
        shift == IF raw >= 0 THEN raw \div 86400000
                 ELSE -(((-raw) + 86399999) \div 86400000)
        t == raw - shift * 86400000
    IN  [AddDays(dt, shift) EXCEPT
            !.hour = t \div 3600000,
            !.minute = (t \div 60000) % 60,
            !.second = (t \div 1000) % 60,
            !.msec = t % 1000]

ProbeTimes ==
    {[year |-> 2025, month |-> 12, day |-> 31, hour |-> h, minute |-> m,
      second |-> s, msec |-> ms] :
        h \in {9, 23}, m \in 0..59, s \in {0, 25}, ms \in {0, 500}}

ProbeInstruments == {"rb2505", "ag2506"}

\* offsets from the bar's start_time at which _should_finish_bar is asked
ProbeOffsets(period) ==
    {-1, 0, 30000, 60000, 180000, 300000,
     minutes(period) * 60000 - 1, minutes(period) * 60000,
     minutes(period) * 60000 + 1, 2 * minutes(period) * 60000}

InitTime ==
    /\ InitBuilder(<<"1m">>)
    /\ bar = IdleBar
    /\ fed = <<>>
    /\ InitAux
    /\ probe \in {[stage |-> "input", instrument_id |-> i, period |-> p, dt |-> t,
                   created |-> IdleBar, offset |-> 0, tick_time |-> NoneTime,
                   finish |-> FALSE] :
                    i \in ProbeInstruments, p \in MinutePeriods, t \in ProbeTimes}

CreateBar ==
    /\ probe.stage = "input"
    /\ probe' = [probe EXCEPT
                    !.stage = "created",
                    !.created = create_new_bar(probe.instrument_id, probe.period,
                                               probe.dt)]
    /\ UNCHANGED <<builderVars, bar, fed, auxVars>>

ShouldFinish ==
    /\ probe.stage = "created"
    /\ \E off \in ProbeOffsets(probe.period) :
          LET t == Plus(probe.created.start_time, off)
          IN  probe' = [probe EXCEPT
                          !.stage = "checked",
                          !.offset = off,
                          !.tick_time = t,
                          !.finish = should_finish_bar(probe.created, t)]
    /\ UNCHANGED <<builderVars, bar, fed, auxVars>>

NextTime == CreateBar \/ ShouldFinish

SpecTime == InitTime /\ [][NextTime]_vars

(***************************************************************************)
(* SpecDay: a daily bar created from a timestamp, then _should_finish_bar  *)
(* applied to it and a tick time of the same day, a later day, a later     *)
(* month and a later year.                                                 *)
(***************************************************************************)
DayProbeTimes ==
    {[year |-> 2025, month |-> 12, day |-> d, hour |-> h, minute |-> m,
      second |-> 0, msec |-> 0] :
        d \in {23, 31}, h \in {2, 9, 21}, m \in {0, 30}}

DayTickDates ==
    {[year |-> 2025, month |-> 12, day |-> 23],
     [year |-> 2025, month |-> 12, day |-> 24],
     [year |-> 2025, month |-> 12, day |-> 31],
     [year |-> 2026, month |-> 1, day |-> 1],
     [year |-> 2026, month |-> 1, day |-> 23],
     [year |-> 2026, month |-> 1, day |-> 31]}

DayTickTimes ==
    {[year |-> d.year, month |-> d.month, day |-> d.day, hour |-> h,
      minute |-> 0, second |-> 0, msec |-> 0] :
        d \in DayTickDates, h \in {0, 2, 3, 9, 14, 15, 23}}

InitDay ==
    /\ InitBuilder(<<"1d">>)
    /\ bar = IdleBar
    /\ fed = <<>>
    /\ InitAux
    /\ probe \in {[stage |-> "input", instrument_id |-> i, period |-> DAY_1,
                   dt |-> t, created |-> IdleBar, offset |-> 0,
                   tick_time |-> NoneTime, finish |-> FALSE] :
                    i \in ProbeInstruments, t \in DayProbeTimes}

ShouldFinishDay ==
    /\ probe.stage = "created"
    /\ \E t \in DayTickTimes :
          probe' = [probe EXCEPT
                      !.stage = "checked",
                      !.tick_time = t,
                      !.finish = should_finish_bar(probe.created, t)]
    /\ UNCHANGED <<builderVars, bar, fed, auxVars>>

NextDayProbe == CreateBar \/ ShouldFinishDay

SpecDay == InitDay /\ [][NextDayProbe]_vars

(***************************************************************************)
(* SpecFail: one builder with periods 5m and 1d and two instruments, fed   *)
(* over two trading days, with a sink whose store_kline may raise (the     *)
(* sink is any object with a store_kline coroutine).  on_tick and close    *)
(* have no try/except, so the exception leaves the call at the store.      *)
(***************************************************************************)
FailAt(d, h, m) ==
    [TradingDay |-> d, UpdateTime |-> h * 10000 + m * 100, UpdateMillisec |-> 0]

FailTimes ==
    {FailAt(20251223, 9, 30), FailAt(20251223, 9, 36),
     FailAt(20251224, 2, 10), FailAt(20251224, 9, 31)}

FailTicks ==
    {[InstrumentID |-> i, LastPrice |-> 3500, Volume |-> 100,
      Turnover |-> 350000, OpenInterest |-> 1000] @@ t :
        i \in ProbeInstruments, t \in FailTimes}

InitFail ==
    /\ InitBuilder(<<"5m", "1d">>)
    /\ bar = IdleBar
    /\ fed = <<>>
    /\ InitAux
    /\ probe = IdleProbe

FailTick ==
    /\ calls.on_tick + calls.close < MaxFailCalls
    /\ \E tick_data \in FailTicks, now \in NowTimes, raiseAt \in 0..2 :
          on_tick(tick_data, now, raiseAt)

FailClose ==
    /\ calls.on_tick + calls.close < MaxFailCalls
    /\ \E now \in NowTimes, raiseAt \in 0..2 : close(now, raiseAt)

NextFail == FailTick \/ FailClose

SpecFail == InitFail /\ [][NextFail]_vars

(***************************************************************************)
(* SpecFeed: one builder with periods 1m and 5m and a sink that returns    *)
(* normally, fed with well-formed ticks, ticks without a usable            *)
(* InstrumentID and ticks whose TradingDay or UpdateTime is missing, empty *)
(* or not a date or time.                                                  *)
(***************************************************************************)
FeedPayload ==
    [LastPrice |-> 3520, Volume |-> 100, Turnover |-> 352000,
     OpenInterest |-> 1000]

FeedGoodTicks ==
    {[InstrumentID |-> "rb2505"] @@ At(9, 30, 0, 0) @@ FeedPayload,
     [InstrumentID |-> "rb2505"] @@ At(9, 31, 0, 0) @@ FeedPayload}

\* no InstrumentID key, or an empty InstrumentID
FeedNoInstrumentTicks ==
    {At(9, 31, 0, 0) @@ FeedPayload,
     [InstrumentID |-> ""] @@ At(9, 31, 0, 0) @@ FeedPayload,
     [InstrumentID |-> "", UpdateTime |-> 93100] @@ FeedPayload}

\* TradingDay or UpdateTime missing, empty, or rejected by strptime
FeedBadTimes ==
    {[UpdateTime |-> 93000, UpdateMillisec |-> 0],
     [TradingDay |-> 20251223, UpdateMillisec |-> 500],
     [TradingDay |-> 0, UpdateTime |-> 93000],
     [TradingDay |-> 20251223, UpdateTime |-> -1],
     [TradingDay |-> 20251223, UpdateTime |-> 250000],
     [TradingDay |-> 20251332, UpdateTime |-> 93000]}

FeedBadTimeTicks ==
    {[InstrumentID |-> "rb2505"] @@ t @@ FeedPayload : t \in FeedBadTimes}

\* datetime.now() at the on_tick call
FeedNow ==
    {[year |-> 2025, month |-> 12, day |-> 23, hour |-> 9, minute |-> 30,
      second |-> 40, msec |-> 0],
     [year |-> 2025, month |-> 12, day |-> 23, hour |-> 9, minute |-> 32,
      second |-> 10, msec |-> 0]}

InitFeed ==
    /\ InitBuilder(<<"1m", "5m">>)
    /\ bar = IdleBar
    /\ fed = <<>>
    /\ InitAux
    /\ probe = IdleProbe

FeedTick ==
    /\ calls.on_tick < MaxFeedCalls
    /\ \E tick_data \in FeedGoodTicks \cup FeedNoInstrumentTicks
                          \cup FeedBadTimeTicks,
          now \in FeedNow :
            on_tick(tick_data, now, 0)

NextFeed == FeedTick

SpecFeed == InitFeed /\ [][NextFeed]_vars

(***************************************************************************)
(* SpecPeriod: KLinePeriod.from_string applied to each key of a list of    *)
(* period keys, then KLineBuilder constructed with the list.  The keys are *)
(* the 8 values and strings that differ from them in case, blanks or name. *)
(***************************************************************************)
KeyStrings ==
    PeriodSet \cup {"5M", "1D", " 5m", "1h", "", "invalid", "MIN_5"}

KeyLists == UNION {[1..n -> KeyStrings] : n \in 0..MaxKeys}

InitPeriod ==
    /\ enabled_periods = <<>>
    /\ current_bars = EmptyMap
    /\ total_ticks = 0
    /\ total_bars = 0
    /\ store_calls = <<>>
    /\ inst_order = <<>>
    /\ calls = [on_tick |-> 0, close |-> 0]
    /\ hist = EmptyMap
    /\ last = [op |-> "init", tick |-> [InstrumentID |-> ""], time |-> NoneTime,
               nstore |-> 0, result |-> "ok"]
    /\ bar = IdleBar
    /\ fed = <<>>
    /\ InitAux
    /\ probe \in {[stage |-> "input", keys |-> ks, parsed |-> <<>>,
                   raised |-> FALSE] : ks \in KeyLists}

\* KLinePeriod.from_string on each key by itself
FromString ==
    /\ probe.stage = "input"
    /\ probe' = [probe EXCEPT
                   !.stage = "parsed",
                   !.parsed = [k \in DOMAIN probe.keys |->
                                 from_string(probe.keys[k])]]
    /\ UNCHANGED <<builderVars, bar, fed, auxVars>>

\* KLineBuilder(sink, keys): enabled_periods is assigned unless from_string raised
Construct ==
    /\ probe.stage = "parsed"
    /\ LET r == KLineBuilder_init(probe.keys)
       IN  /\ probe' = [probe EXCEPT !.stage = "built", !.raised = r.raised]
           /\ enabled_periods' = IF r.raised THEN enabled_periods
                                  ELSE r.enabled_periods
    /\ UNCHANGED <<current_bars, total_ticks, total_bars, store_calls,
                   inst_order, calls, hist, last, bar, fed, auxVars>>

NextPeriod == FromString \/ Construct

SpecPeriod == InitPeriod /\ [][NextPeriod]_vars

(***************************************************************************)
(* SpecBuffer: one TickBuffer(max_size) under add, get_batch and get_all.  *)
(* _buffer is a deque(maxlen = max_size): append on a full deque discards  *)
(* the item at the left end.  get_batch holds the lock over a body without *)
(* an await, so it is one step.  `added` records the ticks added since the *)
(* last get_batch or get_all.                                              *)
(***************************************************************************)
\* collections.deque(maxlen).append
deque_append(buffer, x, maxlen) ==
    IF maxlen = 0 THEN buffer
    ELSE IF Len(buffer) >= maxlen THEN Append(Tail(buffer), x)
    ELSE Append(buffer, x)

TickBuffer_init(max_size) ==
    [max_size |-> max_size, buffer |-> <<>>, total_received |-> 0,
     total_flushed |-> 0, added |-> <<>>, batch |-> <<>>, op |-> "init",
     ops |-> 0]

\* TickBuffer.add
buffer_add(tb, tick_data) ==
    [tb EXCEPT !.buffer = deque_append(tb.buffer, tick_data, tb.max_size),
               !.total_received = @ + 1,
               !.added = Append(@, tick_data),
               !.op = "add", !.ops = @ + 1]

\* TickBuffer.get_batch and TickBuffer.get_all have the same body
buffer_take(tb, op) ==
    IF Len(tb.buffer) = 0
    THEN [tb EXCEPT !.batch = <<>>, !.added = <<>>, !.op = op, !.ops = @ + 1]
    ELSE [tb EXCEPT !.batch = tb.buffer,
                    !.buffer = <<>>,
                    !.total_flushed = @ + Len(tb.buffer),
                    !.added = <<>>,
                    !.op = op, !.ops = @ + 1]

size(tb) == Len(tb.buffer)

is_full(tb) == Len(tb.buffer) >= tb.max_size

BufTicks == {[id |-> n] : n \in 0..1}

InitBuffer ==
    /\ InitBuilder(<<"1m">>)
    /\ bar = IdleBar
    /\ fed = <<>>
    /\ probe = IdleProbe
    /\ kline_storage = IdleStorage
    /\ failure_handler = IdleHandler
    /\ tasks = NoTasks
    /\ tick_buffer \in {TickBuffer_init(n) : n \in 1..MaxBufSize}

BufferAdd ==
    /\ tick_buffer.ops < MaxBufOps
    /\ \E tick_data \in BufTicks :
          tick_buffer' = buffer_add(tick_buffer, tick_data)
    /\ UNCHANGED <<builderVars, bar, fed, probe, failure_handler, tasks,
                   kline_storage>>

GetBatch ==
    /\ tick_buffer.ops < MaxBufOps
    /\ tick_buffer' = buffer_take(tick_buffer, "get_batch")
    /\ UNCHANGED <<builderVars, bar, fed, probe, failure_handler, tasks,
                   kline_storage>>

GetAll ==
    /\ tick_buffer.ops < MaxBufOps
    /\ tick_buffer' = buffer_take(tick_buffer, "get_all")
    /\ UNCHANGED <<builderVars, bar, fed, probe, failure_handler, tasks,
                   kline_storage>>

NextBuffer == BufferAdd \/ GetBatch \/ GetAll

SpecBuffer == InitBuffer /\ [][NextBuffer]_vars

(***************************************************************************)
(* SpecRetry: one FailureHandler with its failure directory and an         *)
(* InfluxDB client whose write_points may raise for any batch.  A file is  *)
(* [data_type, stamp, batch]; its name is data_type_stamp.json, the stamp  *)
(* being datetime.now() to the microsecond (distinct for every save).  The *)
(* data types are "tick" and "kline"; the filter "" stands for None.       *)
(***************************************************************************)
FailureHandler_init ==
    [files |-> {}, save_count |-> 0, retry_success_count |-> 0,
     retry_fail_count |-> 0, clock |-> 0, written |-> {},
     attempted |-> {}, write_failed |-> {},
     result |-> [total |-> 0, success |-> 0, failed |-> 0],
     returned |-> TRUE, filter |-> "", op |-> "init", ops |-> 0]

\* json.dump (line 55) raises TypeError on a datetime object; the only
\* datetime a point carries is the one under "time"
json_serializable(point) ==
    ~("time" \in DOMAIN point /\ DOMAIN point.time = DOMAIN NoneTime)

\* a bug that counts and reports a save whose json.dump raised
save_failed_batch_unchecked(fh, batch, data_type) ==
    IF Len(batch) = 0
    THEN [fh EXCEPT !.returned = TRUE, !.op = "save", !.ops = @ + 1]
    ELSE [fh EXCEPT
            !.files = @ \cup {[data_type |-> data_type, stamp |-> fh.clock + 1,
                               batch |-> batch, intact |-> TRUE]},
            !.clock = @ + 1,
            !.save_count = @ + 1,
            !.returned = TRUE, !.op = "save", !.ops = @ + 1]

\* lines 36-64.  open(filename, 'w') creates the file before json.dump
\* runs, so a dump that raises leaves a truncated file (intact = FALSE,
\* holding none of the batch) and the except branch returns False.
save_failed_batch(fh, batch, data_type) ==
    IF Len(batch) = 0
    THEN [fh EXCEPT !.returned = TRUE, !.op = "save", !.ops = @ + 1]
    ELSE IF \A k \in 1..Len(batch) : json_serializable(batch[k])
    THEN [fh EXCEPT
            !.files = @ \cup {[data_type |-> data_type, stamp |-> fh.clock + 1,
                               batch |-> batch, intact |-> TRUE]},
            !.clock = @ + 1,
            !.save_count = @ + 1,
            !.returned = TRUE, !.op = "save", !.ops = @ + 1]
    ELSE [fh EXCEPT
            !.files = @ \cup {[data_type |-> data_type, stamp |-> fh.clock + 1,
                               batch |-> <<>>, intact |-> FALSE]},
            !.clock = @ + 1,
            !.returned = FALSE, !.op = "save", !.ops = @ + 1]

\* a bug that retries every file whatever the filter
glob_all(files, data_type) == files

\* lines 77-78: glob("{data_type}_*.json") if data_type else glob("*.json")
glob(files, data_type) ==
    IF data_type # "" THEN {f \in files : f.data_type = data_type}
    ELSE files

\* lines 66-125; fails is the set of files whose write_points call raises;
\* json.load (line 97) raises on a truncated file
retry_failed_batches(fh, data_type, fails) ==
    LET failure_files == glob(fh.files, data_type)
        failed == {f \in failure_files : f \in fails \/ ~f.intact}
        succeeded == failure_files \ failed
    IN  IF failure_files = {}
        THEN [fh EXCEPT
                !.result = [total |-> 0, success |-> 0, failed |-> 0],
                !.attempted = {}, !.write_failed = {},
                !.filter = data_type, !.op = "retry", !.ops = @ + 1]
        ELSE [fh EXCEPT
                !.files = @ \ succeeded,
                !.written = @ \cup succeeded,
                !.retry_success_count = @ + Cardinality(succeeded),
                !.retry_fail_count = @ + Cardinality(failed),
                !.result = [total |-> Cardinality(failure_files),
                            success |-> Cardinality(succeeded),
                            failed |-> Cardinality(failed)],
                !.attempted = failure_files, !.write_failed = failed,
                !.filter = data_type, !.op = "retry", !.ops = @ + 1]

DataTypes == {"tick", "kline"}

RetryPoint(name) == [measurement |-> name, fields |-> [price |-> 3500]]

RetryBatches ==
    {<<>>, <<RetryPoint("point1")>>, <<RetryPoint("point1"), RetryPoint("point2")>>}

InitRetry ==
    /\ InitBuilder(<<"1m">>)
    /\ bar = IdleBar
    /\ fed = <<>>
    /\ probe = IdleProbe
    /\ kline_storage = IdleStorage
    /\ tick_buffer = IdleBuffer
    /\ tasks = NoTasks
    /\ failure_handler = FailureHandler_init

SaveFailedBatch ==
    /\ failure_handler.ops < MaxRetryOps
    /\ \E batch \in RetryBatches, data_type \in DataTypes :
          failure_handler' = save_failed_batch(failure_handler, batch, data_type)
    /\ UNCHANGED <<builderVars, bar, fed, probe, tick_buffer, tasks, kline_storage>>

RetryFailedBatches ==
    /\ failure_handler.ops < MaxRetryOps
    /\ \E data_type \in DataTypes \cup {""},
          fails \in SUBSET failure_handler.files :
            failure_handler' = retry_failed_batches(failure_handler, data_type, fails)
    /\ UNCHANGED <<builderVars, bar, fed, probe, tick_buffer, tasks, kline_storage>>

NextRetry == SaveFailedBatch \/ RetryFailedBatches

SpecRetry == InitRetry /\ [][NextRetry]_vars

(***************************************************************************)
(* SpecAsync: one builder with periods 1m and 5m driven by two on_tick     *)
(* coroutines on one event loop (one KLineBuilder is injected into the     *)
(* client of every connection, without a lock).  A coroutine runs until    *)
(* the awaited store_kline suspends (a sink whose store awaits a lock, a   *)
(* full queue or I/O) or until on_tick returns; the other coroutine may    *)
(* run while it is suspended.  The sink has received the bar when          *)
(* store_kline is called.  The sink never raises here.                     *)
(***************************************************************************)
\* lines 112-128 for the period at which the coroutine was suspended:
\* _total_bars += 1, bars[period] = new bar, new bar.update(tick_data)
after_store(st, instrument_id, period, tick_data, current_time) ==
    [st EXCEPT
       !.total_bars = @ + 1,
       !.bars = (period :> update(create_new_bar(instrument_id, period,
                                                 current_time), tick_data))
                @@ st.bars]

\* lines 73-74 from the k-th period on; suspend is the set of period indexes
\* at which the awaited store_kline suspends the coroutine
RECURSIVE run_periods(_, _, _, _, _, _)
run_periods(st, k, instrument_id, tick_data, current_time, suspend) ==
    IF k > Len(enabled_periods) THEN [st EXCEPT !.at = 0]
    ELSE LET period == enabled_periods[k]
             bars0 == IF period \notin DOMAIN st.bars
                      THEN (period :> create_new_bar(instrument_id, period,
                                                     current_time)) @@ st.bars
                      ELSE st.bars
             current_bar == bars0[period]
         IN  IF should_finish_bar(current_bar, current_time)
             THEN LET finished == [current_bar EXCEPT !.is_finished = TRUE,
                                                      !.end_time = current_time]
                      st1 == [st EXCEPT
                                !.bars = [bars0 EXCEPT ![period] = finished],
                                !.calls = Append(@, [bar |-> finished,
                                                     raised |-> FALSE])]
                  IN  IF k \in suspend
                      THEN [st1 EXCEPT !.at = k]
                      ELSE run_periods(
                              after_store(st1, instrument_id, period, tick_data,
                                          current_time),
                              k + 1, instrument_id, tick_data, current_time,
                              suspend)
             ELSE run_periods(
                     [st EXCEPT !.bars = [bars0 EXCEPT ![period] =
                                            update(current_bar, tick_data)]],
                     k + 1, instrument_id, tick_data, current_time, suspend)

\* the effect of a coroutine's run on the builder, up to its suspension
\* (st.at = the period index) or its return (st.at = 0, _total_ticks += 1)
run_effect(t, st, instrument_id, tick_data, current_time) ==
    /\ current_bars' = (instrument_id :> st.bars) @@ current_bars
    /\ store_calls' = st.calls
    /\ total_bars' = st.total_bars
    /\ total_ticks' = IF st.at = 0 THEN total_ticks + 1 ELSE total_ticks
    /\ tasks' = (t :> [pc |-> IF st.at = 0 THEN "done" ELSE "await_store",
                       tick |-> tick_data, time |-> current_time,
                       k |-> st.at]) @@ tasks
    /\ last' = [op |-> "on_tick", tick |-> tick_data, time |-> current_time,
                nstore |-> Len(st.calls) - Len(store_calls),
                result |-> IF st.at = 0 THEN "ok" ELSE "suspended"]

AsyncTasks == {1, 2}

AsyncTicks ==
    {[InstrumentID |-> "rb2505", LastPrice |-> price, Volume |-> 100,
      Turnover |-> 350000, OpenInterest |-> 1000] @@ t :
        price \in {3500, 3510},
        t \in {At(9, 30, 0, 0), At(9, 31, 0, 0), At(9, 31, 10, 0),
               At(9, 35, 0, 0)}}

InitAsync ==
    /\ InitBuilder(<<"1m", "5m">>)
    /\ bar = IdleBar
    /\ fed = <<>>
    /\ probe = IdleProbe
    /\ tick_buffer = IdleBuffer
    /\ failure_handler = IdleHandler
    /\ tasks = NoTasks
    /\ kline_storage = IdleStorage

\* a connection's coroutine calls on_tick (lines 57-70, then the loop)
AsyncStart ==
    /\ calls.on_tick < MaxAsyncTicks
    /\ \E t \in AsyncTasks, tick_data \in AsyncTicks, now \in NowTimes,
          suspend \in SUBSET (DOMAIN enabled_periods) :
            LET instrument_id == tick_data.InstrumentID
                current_time == parse_tick_time(tick_data, now)
                known == instrument_id \in DOMAIN current_bars
                st0 == [bars |-> IF known THEN current_bars[instrument_id]
                                 ELSE EmptyMap,
                        calls |-> store_calls, total_bars |-> total_bars,
                        at |-> 0]
                st1 == run_periods(st0, 1, instrument_id, tick_data,
                                   current_time, suspend)
            IN  /\ (t \in DOMAIN tasks => tasks[t].pc = "done")
                /\ run_effect(t, st1, instrument_id, tick_data, current_time)
                /\ inst_order' = IF known THEN inst_order
                                 ELSE Append(inst_order, instrument_id)
                /\ hist' = (instrument_id :>
                              HistAfter(IF instrument_id \in DOMAIN hist
                                        THEN hist[instrument_id] ELSE NewHist,
                                        current_time)) @@ hist
    /\ calls' = [calls EXCEPT !.on_tick = @ + 1]
    /\ UNCHANGED <<enabled_periods, bar, fed, probe, tick_buffer,
                   failure_handler, kline_storage>>

\* the awaited store_kline returns and the coroutine goes on from line 112
AsyncResume ==
    /\ \E t \in DOMAIN tasks, suspend \in SUBSET (DOMAIN enabled_periods) :
          /\ tasks[t].pc = "await_store"
          /\ LET instrument_id == tasks[t].tick.InstrumentID
                 st0 == [bars |-> current_bars[instrument_id],
                         calls |-> store_calls, total_bars |-> total_bars,
                         at |-> 0]
                 st1 == run_periods(
                           after_store(st0, instrument_id,
                                       enabled_periods[tasks[t].k],
                                       tasks[t].tick, tasks[t].time),
                           tasks[t].k + 1, instrument_id, tasks[t].tick,
                           tasks[t].time, suspend)
             IN  run_effect(t, st1, instrument_id, tasks[t].tick, tasks[t].time)
    /\ UNCHANGED <<enabled_periods, inst_order, calls, hist, bar, fed, probe,
                   tick_buffer, failure_handler, kline_storage>>

NextAsync == AsyncStart \/ AsyncResume

SpecAsync == InitAsync /\ [][NextAsync]_vars

(***************************************************************************)
(* KLineStorage (src/src/storage/kline_storage.py): the write queue, the   *)
(* background writer task and close().  The state of one engine is the     *)
(* pair st = [ks, fh] of the engine record and its FailureHandler.         *)
(* InfluxDBClientWrapper.write_points is a coroutine with a synchronous    *)
(* body, so a write attempt never suspends: the writer suspends only in    *)
(* wait_for(queue.get()) and in the back-off sleep between two attempts,   *)
(* and these are the points where close() can cancel it.  ok is the        *)
(* outcome of the write attempt made in a step (write_points returns or    *)
(* raises).  batches records every _write_kline_batch call:                *)
(* [ids, points, by, attempts, status] with by the caller ("writer" the    *)
(* loop, "flush" the writer's final flush, "close" close()) and status     *)
(* "running", "written", "saved", "unsaved" (save_failed_batch returned    *)
(* False), "empty" (no valid point) or "cancelled".                        *)
(***************************************************************************)
batch_size == 100

max_retries == 3

\* lines 23-63: the engine after initialize(); the writer task is created
\* and has not run yet
KLineStorage_init ==
    [attached |-> TRUE, running |-> TRUE, write_queue |-> <<>>,
     write_count |-> 0, error_count |-> 0,
     writer |-> "new", batch |-> <<>>, cancel |-> FALSE, closer |-> "idle",
     batches |-> <<>>, written |-> <<>>, accepted |-> <<>>,
     discarded |-> <<>>, influxdb_closed |-> FALSE]

\* str.lower() on the instrument codes in use
lower(s) ==
    CASE s = "RB2505" -> "rb2505"
      [] s = "AG2506" -> "ag2506"
      [] OTHER -> s

\* lines 191-233: no point (None) for a bar without start_time
convert_to_point(kline_bar) ==
    IF kline_bar.start_time = NoneTime THEN <<>>
    ELSE <<[measurement |-> <<"kline", kline_bar.period,
                              lower(kline_bar.instrument_id)>>,
            tags |-> [instrument_id |-> kline_bar.instrument_id,
                      trading_day |-> kline_bar.trading_day,
                      period |-> kline_bar.period],
            fields |-> [open |-> kline_bar.open, high |-> kline_bar.high,
                        low |-> kline_bar.low, close |-> kline_bar.close,
                        volume |-> kline_bar.volume,
                        turnover |-> kline_bar.turnover,
                        open_interest |-> kline_bar.open_interest,
                        tick_count |-> kline_bar.tick_count],
            time |-> kline_bar.start_time]>>

\* lines 134-139
RECURSIVE points_of(_, _)
points_of(batch, k) ==
    IF k > Len(batch) THEN <<>>
    ELSE convert_to_point(batch[k].bar) \o points_of(batch, k + 1)

\* lines 122-143: _write_kline_batch is entered with a non-empty batch
begin_write(st, batch, by) ==
    LET points == points_of(batch, 1)
    IN  [st EXCEPT !.ks.batches =
            Append(@, [ids |-> [k \in 1..Len(batch) |-> batch[k].id],
                       points |-> points, by |-> by, attempts |-> 0,
                       status |-> IF points = <<>> THEN "empty"
                                  ELSE "running"])]

\* one turn of the loop of _write_with_retry (lines 171-187) for the call
\* in progress, and what _write_kline_batch does with its result (lines
\* 146-155)
attempt(st, ok) ==
    LET c == Len(st.ks.batches)
        call == st.ks.batches[c]
        n == call.attempts + 1
    IN  IF call.status # "running" THEN st
        ELSE IF ok
        THEN [st EXCEPT !.ks.batches[c].attempts = n,
                        !.ks.batches[c].status = "written",
                        !.ks.write_count = @ + Len(call.points),
                        !.ks.written = Append(@, [call |-> c,
                                                  points |-> call.points])]
        ELSE IF n < max_retries
        THEN [st EXCEPT !.ks.batches[c].attempts = n]
        ELSE LET fh1 == save_failed_batch(st.fh, call.points, "kline")
             IN  [st EXCEPT !.ks.batches[c].attempts = n,
                            !.ks.batches[c].status =
                                IF fh1.returned THEN "saved" ELSE "unsaved",
                            !.ks.error_count = @ + 1,
                            !.fh = fh1]

\* where the caller of _write_kline_batch goes on: suspended in the
\* back-off sleep (line 181) while the call is running, otherwise after
\* the call (batch.clear() at line 107 and the loop test at line 91, the
\* end of the writer at line 120, the end of close() at lines 285-295)
settle(st, by) ==
    LET running == st.ks.batches[Len(st.ks.batches)].status = "running"
    IN  IF by = "writer"
        THEN IF running THEN [st EXCEPT !.ks.writer = "sleep"]
             ELSE [st EXCEPT !.ks.batch = <<>>,
                             !.ks.writer = IF st.ks.running THEN "get"
                                           ELSE "done"]
        ELSE IF by = "flush"
        THEN [st EXCEPT !.ks.writer = IF running THEN "flush_sleep" ELSE "done"]
        ELSE IF running THEN [st EXCEPT !.ks.closer = "drain_sleep"]
             ELSE [st EXCEPT !.ks.closer = "closed",
                             !.ks.influxdb_closed = TRUE]

run_write(st, batch, by, ok) == settle(attempt(begin_write(st, batch, by), ok), by)

\* lines 86-107: the writer wakes in wait_for(queue.get()) with an item, or
\* with the timeout when the queue is empty, then writes the batch when it
\* is full or the queue is drained
background_writer(st, ok) ==
    LET q == st.ks.write_queue
        got == q # <<>>
        batch == IF got THEN Append(st.ks.batch, Head(q)) ELSE st.ks.batch
        rest == IF got THEN Tail(q) ELSE q
        st1 == [st EXCEPT !.ks.batch = batch, !.ks.write_queue = rest]
    IN  IF Len(batch) >= batch_size \/ (batch # <<>> /\ rest = <<>>)
        THEN run_write(st1, batch, "writer", ok)
        ELSE st1

\* the writer wakes from the back-off sleep and makes the next attempt
writer_resume(st, ok) ==
    LET by == IF st.ks.writer = "sleep" THEN "writer" ELSE "flush"
    IN  settle(attempt(st, ok), by)

\* lines 115-118: the loop has ended; flush the pending batch
final_flush(st, ok) ==
    IF st.ks.batch # <<>> THEN run_write(st, st.ks.batch, "flush", ok)
    ELSE [st EXCEPT !.ks.writer = "done"]

\* a bug that ends the writer at the cancellation without the final flush
writer_cancelled_no_flush(st, ok, got) ==
    LET c == Len(st.ks.batches)
        st1 == [st EXCEPT !.ks.cancel = FALSE]
    IN  IF st.ks.writer = "new" THEN [st1 EXCEPT !.ks.writer = "cancelled"]
        ELSE IF st.ks.writer = "sleep"
        THEN [st1 EXCEPT !.ks.batches[c].status = "cancelled",
                         !.ks.writer = "done"]
        ELSE [st1 EXCEPT !.ks.writer = "done"]

\* the writer task runs after close() cancelled it.  A task that never ran
\* ends cancelled.  Otherwise CancelledError is raised at the await the
\* writer is suspended in; it is not an Exception, so it leaves
\* _write_with_retry and _write_kline_batch (lines 142-159, 171-187) and is
\* caught at line 109; the loop ends and lines 115-118 flush the batch.
\* got: the writer was in wait_for(queue.get()) and the get had already
\* completed with an item when the cancellation arrived; asyncio.wait_for
\* then returns the item and drops the cancellation (Python 3.8 to 3.11),
\* the loop body goes on and the loop ends at its test, _running being
\* False.  Otherwise the item stays in the queue.
writer_cancelled(st, ok, got) ==
    LET c == Len(st.ks.batches)
        st1 == [st EXCEPT !.ks.cancel = FALSE]
        st2 == IF st.ks.writer = "sleep"
               THEN [st1 EXCEPT !.ks.batches[c].status = "cancelled"]
               ELSE st1
        st3 == background_writer(st1, ok)
    IN  IF st.ks.writer = "new" THEN [st1 EXCEPT !.ks.writer = "cancelled"]
        ELSE IF st.ks.writer = "get" /\ got /\ st.ks.write_queue # <<>>
        THEN IF st3.ks.writer = "get" THEN final_flush(st3, ok) ELSE st3
        ELSE final_flush(st2, ok)

\* lines 254-268: close() up to `await self._write_task`
close_begin(ks) ==
    IF ~ks.running THEN ks
    ELSE [ks EXCEPT !.running = FALSE, !.cancel = TRUE,
                    !.closer = "await_task"]

\* lines 270-295: the writer task has ended; drain the queue, write what
\* was left, close the client
close_drain(st, ok) ==
    LET remaining_batch == st.ks.write_queue
        st1 == [st EXCEPT !.ks.write_queue = <<>>]
    IN  IF remaining_batch # <<>>
        THEN run_write(st1, remaining_batch, "close", ok)
        ELSE [st1 EXCEPT !.ks.closer = "closed", !.ks.influxdb_closed = TRUE]

\* close() wakes from the back-off sleep of its own _write_kline_batch
close_resume(st, ok) == settle(attempt(st, ok), "close")

Engine == [ks |-> kline_storage, fh |-> failure_handler]

\* the engine's step leaves st
EngineBecomes(st) ==
    /\ kline_storage' = st.ks
    /\ failure_handler' = st.fh

WriterStart ==
    /\ kline_storage.attached
    /\ kline_storage.writer = "new" /\ ~kline_storage.cancel
    /\ kline_storage' = [kline_storage EXCEPT !.writer = "get"]
    /\ UNCHANGED <<builderVars, bar, fed, probe, tick_buffer, tasks,
                   failure_handler>>

WriterWake ==
    /\ kline_storage.attached
    /\ kline_storage.writer = "get" /\ ~kline_storage.cancel
    /\ \E ok \in BOOLEAN : EngineBecomes(background_writer(Engine, ok))
    /\ UNCHANGED <<builderVars, bar, fed, probe, tick_buffer, tasks>>

WriterResume ==
    /\ kline_storage.attached
    /\ kline_storage.writer \in {"sleep", "flush_sleep"} /\ ~kline_storage.cancel
    /\ \E ok \in BOOLEAN : EngineBecomes(writer_resume(Engine, ok))
    /\ UNCHANGED <<builderVars, bar, fed, probe, tick_buffer, tasks>>

WriterCancelled ==
    /\ kline_storage.attached
    /\ kline_storage.cancel
    /\ \E ok \in BOOLEAN, got \in BOOLEAN :
          EngineBecomes(writer_cancelled(Engine, ok, got))
    /\ UNCHANGED <<builderVars, bar, fed, probe, tick_buffer, tasks>>

StorageClose ==
    /\ kline_storage.attached
    /\ kline_storage.closer = "idle"
    /\ kline_storage' = close_begin(kline_storage)
    /\ UNCHANGED <<builderVars, bar, fed, probe, tick_buffer, tasks,
                   failure_handler>>

CloseDrain ==
    /\ kline_storage.attached
    /\ kline_storage.closer = "await_task"
    /\ kline_storage.writer \in {"done", "cancelled"}
    /\ \E ok \in BOOLEAN : EngineBecomes(close_drain(Engine, ok))
    /\ UNCHANGED <<builderVars, bar, fed, probe, tick_buffer, tasks>>

CloseResume ==
    /\ kline_storage.attached
    /\ kline_storage.closer = "drain_sleep"
    /\ \E ok \in BOOLEAN : EngineBecomes(close_resume(Engine, ok))
    /\ UNCHANGED <<builderVars, bar, fed, probe, tick_buffer, tasks>>

(***************************************************************************)
(* SpecStorage: one initialized KLineStorage engine.  Any coroutine may    *)
(* call store_kline at any time, with a bar the builder produced or with a *)
(* bar that has no start_time; write_points may raise in any attempt;      *)
(* close() is called once.                                                 *)
(***************************************************************************)
StoreTick == [InstrumentID |-> "rb2505"] @@ At(9, 30, 0, 0) @@ FeedPayload

StoreBars ==
    {update(create_new_bar("rb2505", "1m", parse_tick_time(StoreTick, NoneTime)),
            StoreTick),
     KLineBar("rb2505", "1m")}

InitStorage ==
    /\ InitBuilder(<<"1m">>)
    /\ bar = IdleBar
    /\ fed = <<>>
    /\ probe = IdleProbe
    /\ tick_buffer = IdleBuffer
    /\ tasks = NoTasks
    /\ failure_handler = FailureHandler_init
    /\ kline_storage = KLineStorage_init

StoreKline ==
    /\ Len(kline_storage.accepted) + Len(kline_storage.discarded) < MaxStored
    /\ \E kline_bar \in StoreBars :
          kline_storage' = store_kline(kline_storage, kline_bar, "on_tick")
    /\ UNCHANGED <<builderVars, bar, fed, probe, tick_buffer, tasks,
                   failure_handler>>

NextStorage ==
    \/ StoreKline
    \/ WriterStart
    \/ WriterWake
    \/ WriterResume
    \/ WriterCancelled
    \/ StorageClose
    \/ CloseDrain
    \/ CloseResume

SpecStorage == InitStorage /\ [][NextStorage]_vars

(***************************************************************************)
(* SpecShutdown: the market-data application (src/src/apps/md_app.py): one *)
(* KLineBuilder with periods 1m and 5m whose sink is an initialized        *)
(* KLineStorage.  Ticks arrive at any time; shutdown_event closes the      *)
(* components one after the other, each close awaited inside its own       *)
(* try/except before the next begins.                                      *)
(***************************************************************************)
\* a bug that stops the storage engine before the builder has flushed
shutdown_order_storage_first == <<"kline_storage", "kline_builder">>

\* md_app.py lines 162-175 (scripts/store_market_data.py lines 91-107)
shutdown_order == <<"kline_builder", "kline_storage">>

\* the awaited close() of the component has returned or raised
closed(component) ==
    IF component = "kline_builder" THEN calls.close > 0
    ELSE kline_storage.closer = "closed"

\* the component shutdown_event is at ("" after the last one)
closing ==
    LET left == {k \in 1..Len(shutdown_order) : ~closed(shutdown_order[k])}
    IN  IF left = {} THEN ""
        ELSE shutdown_order[CHOOSE k \in left : \A j \in left : k <= j]

ShutTicks ==
    {[InstrumentID |-> "rb2505"] @@ At(9, 30, 0, 0) @@ FeedPayload,
     [InstrumentID |-> "rb2505"] @@ At(9, 31, 0, 0) @@ FeedPayload}

InitShutdown ==
    /\ InitBuilder(<<"1m", "5m">>)
    /\ bar = IdleBar
    /\ fed = <<>>
    /\ probe = IdleProbe
    /\ tick_buffer = IdleBuffer
    /\ tasks = NoTasks
    /\ failure_handler = FailureHandler_init
    /\ kline_storage = KLineStorage_init

ShutTick == \E tick_data \in ShutTicks, now \in NowTimes : on_tick(tick_data, now, 0)

ShutdownBuilder ==
    /\ closing = "kline_builder"
    /\ \E now \in NowTimes : close(now, 0)

ShutdownStorage ==
    /\ closing = "kline_storage"
    /\ StorageClose

NextShutdown ==
    \/ ShutTick
    \/ ShutdownBuilder
    \/ ShutdownStorage
    \/ WriterStart
    \/ WriterWake
    \/ WriterResume
    \/ WriterCancelled
    \/ CloseDrain
    \/ CloseResume

SpecShutdown == InitShutdown /\ [][NextShutdown]_vars

(***************************************************************************)
(* Properties                                                              *)
(***************************************************************************)
\* the indices of the store_kline calls in sequence cs made for pair (i, p)
CallsFor(cs, i, p) ==
    {k \in DOMAIN cs : cs[k].bar.instrument_id = i /\ cs[k].bar.period = p}

\* the indices of the store_kline calls made by the step
NewCalls == (Len(store_calls) + 1)..Len(store_calls')

NoRaise == \A k \in DOMAIN store_calls : ~store_calls[k].raised

EnabledSet == {enabled_periods[k] : k \in DOMAIN enabled_periods}

PriceOf(tick_data) == IF "LastPrice" \in DOMAIN tick_data THEN tick_data.LastPrice ELSE 0

\* C1: with non-decreasing timestamps and a sink that never fails, before
\* close() the number of store calls for an (instrument, minute period) equals
\* the number of window boundaries its ticks crossed, no window is stored
\* twice, and the bar after the last boundary is in the table, un-emitted,
\* with is_finished = false.
C1_ExactlyOneEmission ==
    \A i \in DOMAIN hist : \A p \in EnabledSet \cap MinutePeriods :
        (hist[i].monotone /\ calls.close = 0 /\ NoRaise) =>
            /\ Cardinality(CallsFor(store_calls, i, p)) = hist[i].crossings[p]
            /\ i \in DOMAIN current_bars /\ p \in DOMAIN current_bars[i]
            /\ current_bars[i][p].is_finished = FALSE
            /\ \A k \in CallsFor(store_calls, i, p) :
                  store_calls[k].bar.start_time # current_bars[i][p].start_time
            /\ \A k1, k2 \in CallsFor(store_calls, i, p) :
                  k1 # k2 =>
                    store_calls[k1].bar.start_time # store_calls[k2].bar.start_time

C1_Witness ==
    /\ "rb2505" \in DOMAIN hist
    /\ hist["rb2505"].monotone /\ calls.close = 0
    /\ hist["rb2505"].crossings["1m"] = 3
    /\ hist["rb2505"].crossings["5m"] = 2
    /\ Cardinality(CallsFor(store_calls, "rb2505", "1m")) = 3
    /\ current_bars["rb2505"]["1m"].tick_count = 1

\* C2: in an on_tick call, every bar passed to the sink is the bar as it was
\* before the tick (OHLC, cumulative fields, tick_count), marked finished with
\* end_time = the tick's time, and the tick starts the new current bar with
\* open = high = low = close = its price and tick_count = 1.
C2_RolloverSnapshot ==
    [][(last'.op = "on_tick" /\ last'.result = "ok") =>
         \A k \in NewCalls :
            LET sb == store_calls'[k].bar
                i == sb.instrument_id
                p == sb.period
                price == PriceOf(last'.tick)
            IN  /\ i \in DOMAIN current_bars /\ p \in DOMAIN current_bars[i]
                /\ sb = [current_bars[i][p] EXCEPT !.is_finished = TRUE,
                                                   !.end_time = last'.time]
                /\ current_bars'[i][p].open = price
                /\ current_bars'[i][p].high = price
                /\ current_bars'[i][p].low = price
                /\ current_bars'[i][p].close = price
                /\ current_bars'[i][p].tick_count = 1]_vars

C2_Witness ==
    /\ last.op = "on_tick" /\ last.nstore = 1
    /\ Len(store_calls) = 1
    /\ store_calls[1].bar.period = "1m"
    /\ store_calls[1].bar.tick_count = 3
    /\ store_calls[1].bar.open = 3500
    /\ store_calls[1].bar.high = 3510
    /\ store_calls[1].bar.close = 3500
    /\ current_bars["rb2505"]["1m"].tick_count = 1
    /\ current_bars["rb2505"]["1m"].open = 3510
    /\ current_bars["rb2505"]["5m"].tick_count = 4

\* C3: a close() call makes exactly one store call for every pair whose
\* current bar has tick_count > 0 and none for any other pair; the stored bar
\* is that bar marked finished; when the pair's ticks crossed no window
\* boundary, its tick_count is the number of ticks fed.
C3_CloseFlush ==
    [][(last'.op = "close" /\ last'.result = "ok") =>
         /\ \A i \in DOMAIN current_bars : \A p \in DOMAIN current_bars[i] :
              LET b == current_bars[i][p]
                  ks == {k \in NewCalls :
                            /\ store_calls'[k].bar.instrument_id = i
                            /\ store_calls'[k].bar.period = p}
              IN  /\ Cardinality(ks) = (IF b.tick_count > 0 THEN 1 ELSE 0)
                  /\ \A k \in ks :
                        /\ store_calls'[k].bar.is_finished = TRUE
                        /\ store_calls'[k].bar =
                             [b EXCEPT !.is_finished = TRUE, !.end_time = last'.time]
                        /\ (calls.close = 0 /\ p \in MinutePeriods
                              /\ hist[i].crossings[p] = 0) =>
                             (/\ hist[i].n >= 1
                              /\ store_calls'[k].bar.tick_count = hist[i].n
                              /\ Cardinality(CallsFor(store_calls', i, p)) = 1)
         /\ \A k \in NewCalls :
              /\ store_calls'[k].bar.instrument_id \in DOMAIN current_bars
              /\ store_calls'[k].bar.period
                    \in DOMAIN current_bars[store_calls'[k].bar.instrument_id]]_vars

C3_Witness ==
    /\ last.op = "close" /\ calls.close = 1 /\ calls.on_tick = 3
    /\ hist["rb2505"].crossings["1m"] = 0
    /\ Len(store_calls) = 2
    /\ store_calls[1].bar.period = "1m" /\ store_calls[1].bar.tick_count = 3
    /\ store_calls[1].bar.is_finished
    /\ store_calls[2].bar.period = "5m" /\ store_calls[2].bar.tick_count = 3

\* C4: for a minute period with duration d, a created bar starts at the
\* timestamp with minute - (minute mod d), second 0 and sub-second 0, the
\* date and hour kept, whatever the instrument.
C4_AlignTime ==
    probe.stage \in {"created", "checked"} =>
        LET d == minutes(probe.period)
            st == probe.created.start_time
        IN  /\ st = [probe.dt EXCEPT !.minute = probe.dt.minute - (probe.dt.minute % d),
                                     !.second = 0, !.msec = 0]
            /\ st.minute % d = 0 /\ st.second = 0 /\ st.msec = 0
            /\ st.year = probe.dt.year /\ st.month = probe.dt.month
            /\ st.day = probe.dt.day /\ st.hour = probe.dt.hour

C4_Witness ==
    /\ probe.stage = "created" /\ probe.period = "5m"
    /\ probe.instrument_id = "ag2506"
    /\ probe.dt.minute = 37 /\ probe.dt.second = 25 /\ probe.dt.msec = 500
    /\ probe.created.start_time.minute = 35
    /\ probe.created.start_time.second = 0

\* C5: a minute bar is to be finished if and only if the tick is at least
\* the period's duration after the bar's start_time, to the millisecond.
C5_ShouldFinish ==
    probe.stage = "checked" =>
        (probe.finish <=> probe.offset >= minutes(probe.period) * 60000)

C5_Witness ==
    /\ probe.stage = "checked" /\ probe.period = "5m"
    /\ probe.offset = 300000 /\ probe.finish
    /\ probe.dt.hour = 23 /\ probe.dt.minute = 57
    /\ probe.tick_time.year = 2026 /\ probe.tick_time.minute = 0

\* C6: a tick two or more windows after the current bar's start makes one
\* store call for the pair, of the stale bar, and the new current bar is the
\* window of the tick; nothing is stored for the windows in between.
C6_SingleRollover ==
    [][(last'.op = "on_tick" /\ last'.result = "ok") =>
         \A p \in EnabledSet \cap MinutePeriods :
            LET i == last'.tick.InstrumentID
                t == last'.time
            IN  (/\ i \in DOMAIN current_bars /\ p \in DOMAIN current_bars[i]
                 /\ NotBefore(t, Plus(current_bars[i][p].start_time,
                                      2 * minutes(p) * 60000))) =>
                   LET ks == {k \in NewCalls :
                                /\ store_calls'[k].bar.instrument_id = i
                                /\ store_calls'[k].bar.period = p}
                   IN  /\ Cardinality(ks) = 1
                       /\ \A k \in ks : store_calls'[k].bar.start_time
                                          = current_bars[i][p].start_time
                       /\ current_bars'[i][p].start_time = Window(t, p)
                       /\ current_bars'[i][p].tick_count = 1
                       /\ ~current_bars'[i][p].is_finished]_vars

C6_Witness ==
    /\ last.op = "on_tick" /\ calls.on_tick = 2 /\ calls.close = 0
    /\ last.time.minute = 42 /\ last.time.second = 10
    /\ Len(store_calls) = 2
    /\ store_calls[1].bar.period = "1m"
    /\ store_calls[1].bar.start_time.minute = 30
    /\ current_bars["rb2505"]["1m"].start_time.minute = 42
    /\ current_bars["rb2505"]["5m"].start_time.minute = 40

\* C7: once a bar has a tick, low <= open <= high and low <= close <= high.
C7_OHLCOrdered ==
    bar.tick_count > 0 =>
        /\ bar.low <= bar.open /\ bar.open <= bar.high
        /\ bar.low <= bar.close /\ bar.close <= bar.high

RECURSIVE MaxPrice(_, _)
MaxPrice(ts, k) ==
    IF k = 1 THEN PriceOf(ts[1]) ELSE Max(MaxPrice(ts, k - 1), PriceOf(ts[k]))

RECURSIVE MinPrice(_, _)
MinPrice(ts, k) ==
    IF k = 1 THEN PriceOf(ts[1]) ELSE Min(MinPrice(ts, k - 1), PriceOf(ts[k]))

\* C8: after folding ticks with prices p1..pk, open = p1, high = max,
\* low = min and close = pk.
C8_OHLCValues ==
    Len(fed) >= 1 =>
        /\ bar.open = PriceOf(fed[1])
        /\ bar.high = MaxPrice(fed, Len(fed))
        /\ bar.low = MinPrice(fed, Len(fed))
        /\ bar.close = PriceOf(fed[Len(fed)])

\* C9: volume, turnover and open_interest are those of the last tick folded
\* (0 for a field the tick lacks) and tick_count is the number of ticks folded.
C9_LastWriteWins ==
    /\ bar.tick_count = Len(fed)
    /\ Len(fed) >= 1 =>
          LET t == fed[Len(fed)]
          IN  /\ bar.volume = (IF "Volume" \in DOMAIN t THEN t.Volume ELSE 0)
              /\ bar.turnover = (IF "Turnover" \in DOMAIN t THEN t.Turnover ELSE 0)
              /\ bar.open_interest =
                    (IF "OpenInterest" \in DOMAIN t THEN t.OpenInterest ELSE 0)

C9_Witness ==
    /\ Len(fed) = 3 /\ bar.tick_count = 3
    /\ "Volume" \in DOMAIN fed[1] /\ fed[1].Volume = 100
    /\ "Volume" \in DOMAIN fed[2] /\ fed[2].Volume = 150
    /\ "Volume" \notin DOMAIN fed[3]
    /\ bar.volume = 0 /\ bar.turnover = 0 /\ bar.open_interest = 0

\* C10: after an on_tick call that returns normally every enabled period has
\* a current, un-finished bar for the instrument with tick_count >= 1 and
\* close = the tick's price, and a period that did not roll over keeps its
\* bar (same start_time, one more tick).
C10_FanOut ==
    [][(last'.op = "on_tick" /\ last'.result = "ok") =>
         LET i == last'.tick.InstrumentID
         IN  /\ i \in DOMAIN current_bars'
             /\ \A p \in EnabledSet :
                  /\ p \in DOMAIN current_bars'[i]
                  /\ current_bars'[i][p].tick_count >= 1
                  /\ current_bars'[i][p].close = PriceOf(last'.tick)
                  /\ current_bars'[i][p].is_finished = FALSE
                  /\ (/\ i \in DOMAIN current_bars /\ p \in DOMAIN current_bars[i]
                      /\ \A k \in NewCalls : store_calls'[k].bar.period # p) =>
                        /\ current_bars'[i][p].start_time
                              = current_bars[i][p].start_time
                        /\ current_bars'[i][p].tick_count
                              = current_bars[i][p].tick_count + 1]_vars

SameDate(a, b) == a.year = b.year /\ a.month = b.month /\ a.day = b.day

C12_DayCloseEvery ==
    (probe.stage = "checked" /\ probe.period = DAY_1) =>
        ((~SameDate(probe.created.start_time, probe.tick_time)
            /\ probe.tick_time.hour >= 3) => probe.finish)

\* C13: every bar passed to the sink, by a rollover or by close(), has
\* tick_count >= 1 and is the bar of a pair that was in the table before the
\* call with tick_count >= 1, for an instrument that had received a tick
\* before the call (so the tick that creates a bar never closes it, for the
\* minute and the daily period); every bar in the table has tick_count >= 1.
C13_NoEmptyBar ==
    [][/\ \A k \in NewCalls :
            LET sb == store_calls'[k].bar
                i == sb.instrument_id
                p == sb.period
            IN  /\ sb.tick_count >= 1
                /\ i \in DOMAIN hist /\ hist[i].n >= 1
                /\ i \in DOMAIN current_bars /\ p \in DOMAIN current_bars[i]
                /\ current_bars[i][p].tick_count >= 1
       /\ \A i \in DOMAIN current_bars' : \A p \in DOMAIN current_bars'[i] :
            current_bars'[i][p].tick_count >= 1]_vars

C13_Witness ==
    /\ last.op = "close" /\ calls.on_tick = 2 /\ NoRaise
    /\ Len(store_calls) = 4
    /\ store_calls[1].bar.period = "5m" /\ store_calls[1].bar.tick_count = 1
    /\ store_calls[2].bar.period = "1d" /\ store_calls[2].bar.tick_count = 1
    /\ store_calls[4].bar.period = "1d" /\ store_calls[4].bar.tick_count = 1
    /\ "rb2505" \in DOMAIN hist /\ "ag2506" \notin DOMAIN hist
    /\ CallsFor(store_calls, "ag2506", "5m") = {}

C17_FlushAllOnFailure ==
    [][(calls'.close = calls.close + 1) =>
         \A i \in DOMAIN current_bars : \A p \in DOMAIN current_bars[i] :
            current_bars[i][p].tick_count > 0 =>
                \E k \in NewCalls :
                    /\ store_calls'[k].bar.instrument_id = i
                    /\ store_calls'[k].bar.period = p]_vars

\* C18: after close() has returned, the (instrument, period) table is empty.
C18_ClearedAfterClose ==
    (last.op = "close" /\ last.result = "ok") => DOMAIN current_bars = {}

\* C19: before any close(), a bar that on_tick passes to the sink was not
\* passed to it by an earlier on_tick call: its is_finished flag was false
\* when the call began.
C19_NoRetry ==
    [][(calls'.on_tick = calls.on_tick + 1 /\ calls.close = 0) =>
         \A k \in NewCalls :
            LET i == store_calls'[k].bar.instrument_id
                p == store_calls'[k].bar.period
            IN  /\ i \in DOMAIN current_bars /\ p \in DOMAIN current_bars[i]
                /\ current_bars[i][p].is_finished = FALSE]_vars

\* C15: an on_tick call whose tick has no InstrumentID key or an empty
\* InstrumentID leaves the bar table, total_ticks, total_bars and the sink's
\* calls unchanged and returns without raising.
C15_DiscardNoInstrument ==
    [][(/\ calls'.on_tick = calls.on_tick + 1
        /\ ("InstrumentID" \notin DOMAIN last'.tick
              \/ last'.tick.InstrumentID = "")) =>
         /\ current_bars' = current_bars
         /\ total_ticks' = total_ticks
         /\ total_bars' = total_bars
         /\ store_calls' = store_calls
         /\ last'.result = "dropped"]_vars

C15_Witness ==
    /\ last.op = "on_tick" /\ last.result = "dropped"
    /\ "TradingDay" \notin DOMAIN last.tick
    /\ Get(last.tick, "InstrumentID", "absent") = ""
    /\ Get(last.tick, "UpdateTime", -1) = 93100
    /\ calls.on_tick = 3 /\ total_ticks = 2
    /\ "rb2505" \in DOMAIN current_bars
    /\ current_bars["rb2505"]["1m"].start_time.minute = 30
    /\ store_calls = <<>>

EightValues == {"1m", "3m", "5m", "10m", "15m", "30m", "60m", "1d"}

\* C20: from_string returns the period whose value is the string for each
\* of the 8 values and raises ValueError for every other string (other case,
\* blanks, member names, the empty string); constructing a builder with a
\* non-empty key list fails when some key is not one of the 8 values and
\* otherwise enables exactly the listed periods, in order.
C20_ExactMatch ==
    (probe.stage = "built") =>
        /\ \A k \in DOMAIN probe.keys :
              probe.parsed[k] = (IF probe.keys[k] \in EightValues
                                 THEN probe.keys[k] ELSE "ValueError")
        /\ (\E k \in DOMAIN probe.keys : probe.keys[k] \notin EightValues) =>
              (probe.raised /\ enabled_periods = <<>>)
        /\ (/\ probe.keys # <<>>
            /\ \A k \in DOMAIN probe.keys : probe.keys[k] \in EightValues) =>
              (~probe.raised /\ enabled_periods = probe.keys)

C20_Witness ==
    /\ probe.stage = "built"
    /\ probe.keys = <<"5m", "5M">>
    /\ probe.parsed = <<"5m", "ValueError">>
    /\ probe.raised /\ enabled_periods = <<>>

\* C21: total_ticks is the number of on_tick calls processed and total_bars
\* is the number of bars passed to the sink, by rollovers and by close().
C21_CountersCountEvents ==
    /\ total_ticks = calls.on_tick
    /\ total_bars = Len(store_calls)

\* C22: an on_tick call for instrument a leaves the bars of every other
\* instrument as they were, adds no other instrument to the table and makes
\* store calls for a only; every bar of the table carries the instrument
\* and the period it is filed under, so no bar is filed under two of them.
C22_InstrumentIsolation ==
    [][(calls'.on_tick = calls.on_tick + 1) =>
         LET a == Get(last'.tick, "InstrumentID", "")
         IN  /\ \A i \in DOMAIN current_bars \ {a} :
                  i \in DOMAIN current_bars' /\ current_bars'[i] = current_bars[i]
             /\ DOMAIN current_bars' \subseteq DOMAIN current_bars \cup {a}
             /\ \A k \in NewCalls : store_calls'[k].bar.instrument_id = a
             /\ \A i \in DOMAIN current_bars' : \A p \in DOMAIN current_bars'[i] :
                  /\ current_bars'[i][p].instrument_id = i
                  /\ current_bars'[i][p].period = p]_vars

C22_Witness ==
    /\ last.op = "on_tick" /\ last.result = "ok" /\ last.nstore = 1
    /\ last.tick.InstrumentID = "ag2506"
    /\ calls.on_tick = 3 /\ Len(store_calls) = 1
    /\ store_calls[1].bar.instrument_id = "ag2506"
    /\ "rb2505" \in DOMAIN current_bars
    /\ current_bars["rb2505"]["5m"].tick_count = 1
    /\ current_bars["rb2505"]["1d"].tick_count = 1
    /\ current_bars["ag2506"]["1d"].tick_count = 2

\* C23: get_batch returns the ticks added since the previous get_batch or
\* get_all, all of them and in insertion order, and leaves the buffer empty.
C23_GetBatchAll ==
    [][(tick_buffer'.op = "get_batch" /\ tick_buffer'.ops = tick_buffer.ops + 1) =>
         /\ tick_buffer'.batch = tick_buffer.added
         /\ size(tick_buffer') = 0]_vars

\* C24: a retry call returns total = success + failed = the number of files
\* of the selected data type (all files without a filter); exactly the files
\* whose batch was written are deleted, a file whose write raised stays, and
\* with a filter a file of another data type is neither written nor deleted.
C24_RetryAccounting ==
    [][(failure_handler'.op = "retry"
          /\ failure_handler'.ops = failure_handler.ops + 1) =>
         LET fh0 == failure_handler
             fh1 == failure_handler'
             r == fh1.result
             selected == {f \in fh0.files :
                            fh1.filter = "" \/ f.data_type = fh1.filter}
         IN  /\ r.total = r.success + r.failed
             /\ r.total = Cardinality(selected)
             /\ fh1.attempted = selected
             /\ fh1.files \subseteq fh0.files
             /\ \A f \in fh0.files :
                   f \notin fh1.files <=> f \in fh1.written \ fh0.written
             /\ \A f \in selected : f \in fh1.write_failed => f \in fh1.files
             /\ r.success = Cardinality(fh0.files \ fh1.files)
             /\ r.failed = Cardinality(selected \cap fh1.files)
             /\ \A f \in fh0.files \ selected :
                   f \in fh1.files /\ f \notin fh1.written]_vars

C24_Witness ==
    /\ failure_handler.op = "retry" /\ failure_handler.ops = 4
    /\ failure_handler.filter = "tick"
    /\ failure_handler.result = [total |-> 2, success |-> 1, failed |-> 1]
    /\ Cardinality(failure_handler.files) = 2
    /\ \E f \in failure_handler.files : f.data_type = "kline"
    /\ \E f \in failure_handler.files :
          f.data_type = "tick" /\ f \in failure_handler.write_failed
    /\ \E f \in failure_handler.written : f.data_type = "tick"

\* t lies in the window of length minutes(p) that starts at start
InWindow(start, t, p) ==
    /\ NotBefore(t, start)
    /\ total_msec(timedelta(t, start)) < minutes(p) * 60000

\* C25: when the timestamps of an instrument's ticks are non-decreasing,
\* the bar of every enabled minute period that a processed tick is folded
\* into (the pair's current bar after the call) has
\* start_time <= tick time < start_time + duration.
C25_TickInWindow ==
    [][(/\ calls'.on_tick = calls.on_tick + 1
        /\ last'.result = "ok"
        /\ hist'[last'.tick.InstrumentID].monotone) =>
         LET i == last'.tick.InstrumentID
         IN  \A p \in EnabledSet \cap MinutePeriods :
                LET b1 == current_bars'[i][p]
                    folded == IF /\ i \in DOMAIN current_bars
                                 /\ p \in DOMAIN current_bars[i]
                                 /\ current_bars[i][p].start_time = b1.start_time
                              THEN b1.tick_count = current_bars[i][p].tick_count + 1
                              ELSE b1.tick_count = 1
                IN  /\ folded
                    /\ InWindow(b1.start_time, last'.time, p)]_vars

C25_Witness ==
    /\ last.op = "on_tick" /\ last.result = "ok" /\ calls.close = 0
    /\ hist["rb2505"].monotone /\ hist["rb2505"].n = 3
    /\ last.time.minute = 31 /\ last.time.second = 0 /\ last.time.msec = 0
    /\ last.nstore = 1
    /\ store_calls[1].bar.tick_count = 2
    /\ current_bars["rb2505"]["1m"].start_time.minute = 31
    /\ current_bars["rb2505"]["1m"].tick_count = 1
    /\ current_bars["rb2505"]["5m"].start_time.minute = 30
    /\ current_bars["rb2505"]["5m"].tick_count = 3

\* C26: every bar that an on_tick call creates (for a new pair or by a
\* rollover) starts at or before the timestamp of the tick that created it,
\* for the minute periods and for the daily period.
C26_CreatedAlignedDown ==
    [][(calls'.on_tick = calls.on_tick + 1 /\ last'.result # "dropped") =>
         LET i == last'.tick.InstrumentID
         IN  \A p \in DOMAIN current_bars'[i] :
                LET b1 == current_bars'[i][p]
                    created == \/ i \notin DOMAIN current_bars
                               \/ p \notin DOMAIN current_bars[i]
                               \/ current_bars[i][p].start_time # b1.start_time
                IN  created => NotBefore(last'.time, b1.start_time)]_vars

\* C27: a bar of the table with is_finished = true (it has been handed to
\* the sink) is not changed by any later on_tick or close() call for as long
\* as it is in the table.
C27_NoMutationAfterHandOff ==
    [][\A i \in DOMAIN current_bars : \A p \in DOMAIN current_bars[i] :
          (/\ current_bars[i][p].is_finished
           /\ current_bars'[i][p].start_time = current_bars[i][p].start_time) =>
             current_bars'[i][p] = current_bars[i][p]]_vars

BarKey(b) == <<b.instrument_id, b.period, b.start_time>>

Quiescent == \A t \in DOMAIN tasks : tasks[t].pc = "done"

\* C28: when on_tick coroutines interleave at the awaited store of a
\* rollover, no bar is passed to the sink twice, total_bars counts each
\* closed bar once, and once the coroutines have returned the current bars
\* are un-finished.
C28_InterleavedRollover ==
    /\ \A k1, k2 \in DOMAIN store_calls :
          k1 # k2 => BarKey(store_calls[k1].bar) # BarKey(store_calls[k2].bar)
    /\ Quiescent =>
          /\ total_bars = Cardinality({BarKey(store_calls[k].bar) :
                                          k \in DOMAIN store_calls})
          /\ \A i \in DOMAIN current_bars : \A p \in DOMAIN current_bars[i] :
                ~current_bars[i][p].is_finished

\* C29: an on_tick call whose timestamp is earlier than the start_time of
\* the current bar of a minute period makes no store call for that pair and
\* keeps the bar: start_time and is_finished unchanged, close = the tick's
\* price, the cumulative fields = the tick's, tick_count + 1.
C29_OutOfOrderFolded ==
    [][(calls'.on_tick = calls.on_tick + 1 /\ last'.result = "ok") =>
         LET i == last'.tick.InstrumentID
         IN  \A p \in EnabledSet \cap MinutePeriods :
                (/\ i \in DOMAIN current_bars /\ p \in DOMAIN current_bars[i]
                 /\ ~NotBefore(last'.time, current_bars[i][p].start_time)) =>
                   LET b0 == current_bars[i][p]
                       b1 == current_bars'[i][p]
                   IN  /\ \A k \in NewCalls :
                             BarKey(store_calls'[k].bar)[2] # p
                       /\ b1.start_time = b0.start_time
                       /\ b1.is_finished = b0.is_finished
                       /\ b1.end_time = b0.end_time
                       /\ b1.tick_count = b0.tick_count + 1
                       /\ b1.close = PriceOf(last'.tick)
                       /\ b1.volume = last'.tick.Volume
                       /\ b1.turnover = last'.tick.Turnover
                       /\ b1.open_interest = last'.tick.OpenInterest]_vars

C29_Witness ==
    /\ last.op = "on_tick" /\ last.result = "ok" /\ last.nstore = 0
    /\ calls.on_tick = 3 /\ calls.close = 0
    /\ last.time.minute = 30 /\ last.time.second = 59
    /\ ~hist["rb2505"].monotone
    /\ Len(store_calls) = 2
    /\ current_bars["rb2505"]["1m"].start_time.minute = 35
    /\ current_bars["rb2505"]["1m"].tick_count = 2
    /\ current_bars["rb2505"]["5m"].start_time.minute = 35
    /\ current_bars["rb2505"]["5m"].tick_count = 2

\* C30: in a rollover of a minute period the new bar starts at least one
\* period after the bar it replaces, whatever the order of the timestamps;
\* with a sink that never fails, the bar passed to the sink starts no earlier
\* than any bar passed for the pair before, and strictly later than each of
\* them when all of them were passed by rollovers (no close() yet).
C30_StartsIncrease ==
    [][(calls'.on_tick = calls.on_tick + 1) =>
         \A k \in NewCalls :
            LET sb == store_calls'[k].bar
                i == sb.instrument_id
                p == sb.period
            IN  p \in MinutePeriods =>
                  /\ total_msec(timedelta(current_bars'[i][p].start_time,
                                          sb.start_time))
                        >= minutes(p) * 60000
                  /\ NoRaise =>
                        \A k0 \in CallsFor(store_calls, i, p) :
                           /\ NotBefore(sb.start_time,
                                        store_calls[k0].bar.start_time)
                           /\ calls.close = 0 =>
                                 store_calls[k0].bar.start_time # sb.start_time]_vars

C30_Witness ==
    /\ last.op = "on_tick" /\ calls.on_tick = 4 /\ calls.close = 0
    /\ ~hist["rb2505"].monotone
    /\ Len(store_calls) = 4
    /\ store_calls[1].bar.period = "1m"
    /\ store_calls[1].bar.start_time.minute = 30
    /\ store_calls[3].bar.period = "1m"
    /\ store_calls[3].bar.start_time.minute = 35
    /\ store_calls[3].bar.tick_count = 2
    /\ current_bars["rb2505"]["1m"].start_time.minute = 42

\* the sum of tick_count over the first k store calls made for pair (i, p)
RECURSIVE EmittedTicks(_, _, _)
EmittedTicks(k, i, p) ==
    IF k = 0 THEN 0
    ELSE EmittedTicks(k - 1, i, p)
         + (IF /\ store_calls[k].bar.instrument_id = i
               /\ store_calls[k].bar.period = p
            THEN store_calls[k].bar.tick_count ELSE 0)

\* C31: before close(), for every instrument and every enabled period, the
\* tick_count of the bars emitted for the pair plus the tick_count of its
\* current bar is the number of ticks accepted for the instrument, also
\* after an on_tick call in which a store raised.
C31_TickConservation ==
    calls.close = 0 =>
        \A i \in DOMAIN hist : \A p \in EnabledSet :
            EmittedTicks(Len(store_calls), i, p)
              + (IF i \in DOMAIN current_bars /\ p \in DOMAIN current_bars[i]
                 THEN current_bars[i][p].tick_count ELSE 0)
              = hist[i].n

\* the TradingDay of the first tick of s, from index k on, that carries a
\* non-empty TradingDay (0 when there is none)
RECURSIVE FirstTradingDay(_, _)
FirstTradingDay(s, k) ==
    IF k > Len(s) THEN 0
    ELSE IF Get(s[k], "TradingDay", 0) # 0 THEN s[k].TradingDay
    ELSE FirstTradingDay(s, k + 1)

C36_PendingIsBuffered ==
    /\ tick_buffer.total_received - tick_buffer.total_flushed = size(tick_buffer)
    /\ size(tick_buffer) <= tick_buffer.max_size

\* the _write_kline_batch calls of the engine that include the item id
CallsWith(id) ==
    {c \in DOMAIN kline_storage.batches :
        \E j \in DOMAIN kline_storage.batches[c].ids :
            kline_storage.batches[c].ids[j] = id}

\* C34 as stated: every bar accepted by store_kline is included in a
\* _write_kline_batch call by the time close() returns, and no bar is
\* included in more than one batch.
C34_NoLossNoRepeat ==
    kline_storage.attached =>
        \A k \in DOMAIN kline_storage.accepted :
            LET id == kline_storage.accepted[k].id
            IN  /\ Cardinality(CallsWith(id)) <= 1
                /\ kline_storage.closer = "closed" => CallsWith(id) # {}

\* C34 amended: every bar accepted by store_kline is included in a
\* _write_kline_batch call by the time close() returns, and in exactly one
\* call that was not cut short by the cancellation; a bar is included a
\* second time only when the call of its batch was cancelled, and then by
\* the writer's final flush.
C34_NoLossOneCompletedCall ==
    kline_storage.attached =>
        \A k \in DOMAIN kline_storage.accepted :
            LET id == kline_storage.accepted[k].id
                whole == {c \in CallsWith(id) :
                             kline_storage.batches[c].status # "cancelled"}
            IN  /\ Cardinality(whole) <= 1
                /\ Cardinality(CallsWith(id)) <= 2
                /\ \A c \in CallsWith(id) \ whole :
                      /\ c + 1 \in whole
                      /\ kline_storage.batches[c + 1].by = "flush"
                      /\ kline_storage.batches[c + 1].ids =
                            kline_storage.batches[c].ids
                /\ kline_storage.closer = "closed" => whole # {}

\* C34: close() returned after cancelling the writer in the back-off of a
\* batch, with one bar in that batch and another still in the queue.
C34_Witness ==
    /\ kline_storage.attached
    /\ kline_storage.closer = "closed"
    /\ \E c \in DOMAIN kline_storage.batches :
          /\ kline_storage.batches[c].status = "cancelled"
          /\ kline_storage.batches[c + 1].by = "flush"
          /\ kline_storage.batches[c + 1].status = "written"
    /\ \E c \in DOMAIN kline_storage.batches :
          kline_storage.batches[c].by = "close"

\* the points written by the first c _write_kline_batch calls
RECURSIVE WrittenPoints(_)
WrittenPoints(c) ==
    IF c = 0 THEN 0
    ELSE WrittenPoints(c - 1)
         + (IF kline_storage.batches[c].status = "written"
            THEN Len(kline_storage.batches[c].points) ELSE 0)

\* C35: a _write_kline_batch call makes at most max_retries write attempts
\* and stops at the first success; write_count grows by the number of
\* points only on success; after all attempts failed the points are passed
\* to save_failed_batch once, so when the call has returned its points are
\* either written or saved in a failure file.
C35_WrittenOrSaved ==
    kline_storage.attached =>
        /\ kline_storage.write_count = WrittenPoints(Len(kline_storage.batches))
        /\ \A c \in DOMAIN kline_storage.batches :
              LET call == kline_storage.batches[c]
              IN  /\ call.attempts <= max_retries
                  /\ call.status \in {"written", "saved", "unsaved"} =>
                        \/ call.status = "written"
                        \/ /\ call.attempts = max_retries
                           /\ \E f \in failure_handler.files :
                                 /\ f.data_type = "kline"
                                 /\ f.intact
                                 /\ f.batch = call.points

\* C33: in the shutdown sequence KLineStorage.close() is called only after
\* KLineBuilder.close() has finished, so every bar the builder flushes at
\* shutdown reaches store_kline while the engine is running: none is
\* discarded by the not-running check, and each is in a _write_kline_batch
\* call when the storage has closed.
C33_BuilderClosedFirst ==
    kline_storage.attached =>
        /\ kline_storage.closer # "idle" => calls.close > 0
        /\ \A k \in DOMAIN kline_storage.discarded :
              kline_storage.discarded[k].caller # "close"
        /\ \A k \in DOMAIN kline_storage.accepted :
              (/\ kline_storage.accepted[k].caller = "close"
               /\ kline_storage.closer = "closed")
                 => CallsWith(kline_storage.accepted[k].id) # {}

\* C33: the shutdown has run to the end and the builder flushed two bars
\* into the running engine, one of them written by close()'s drain.
C33_Witness ==
    /\ kline_storage.attached
    /\ kline_storage.closer = "closed"
    /\ Cardinality({k \in DOMAIN kline_storage.accepted :
                       kline_storage.accepted[k].caller = "close"}) = 2
    /\ \E c \in DOMAIN kline_storage.batches :
          /\ kline_storage.batches[c].by = "close"
          /\ kline_storage.batches[c].status = "written"

=============================================================================
